---- MODULE Spec2Model ----
(***************************************************************************)
(* Payment lifecycle of the L402 server: purchase creation, webhook and    *)
(* poll reconciliation, credit settlement, over a Redis store whose keys   *)
(* expire.  Every await point of the Rust code that touches the store or a *)
(* provider is one step, so that concurrent handlers interleave exactly    *)
(* where the tokio tasks can.  Time is counted in whole seconds.           *)
(***************************************************************************)
EXTENDS Integers, Sequences, FiniteSets, TLC

\* ------------------------------------------------------------------ bounds
MaxUsers    == 1      \* users that sign up; tokens range over the same ids
MaxPayments == 1      \* calls of process_payment_request
MaxWebhooks == 1      \* webhook requests being handled at the same time
MaxSkew     == 0      \* the clock may also advance second by second up to here
MaxTime     == 1900   \* the clock stops here, but for a poll task to time out
MaxCalls    == 2      \* concurrent calls of update_user_credits on one user
MaxConversions == 2   \* calls of convert_usd_to_sats
QuoteStep   == 300    \* seconds the clock advances between conversion steps
MaxQuoteTime == 1200  \* the clock of the conversions stops here
MaxRate     == 60     \* cached rates tried for an invoice: 1..MaxRate sats per USD
MaxStored   == 2      \* payment requests created, for the store on its own
SubSecond   == 2      \* clock units in a second, for the store on its own
MaxStoreSkew == 1     \* clock units a creation may start after the first one
MaxStoreTime == 3850  \* the clock of the store on its own stops here

\* ------------------------------------------------------- program constants
ExpiryMinutes      == 30    \* Duration::minutes(30), process_payment_request
PollTimeoutMinutes == 30    \* timeout_minutes.unwrap_or(30)
TtlFloorSeconds    == 60    \* TTL of a request stored when already expired
SignupCredits      == 1     \* User::new(1)
CacheSeconds       == 600   \* cache_duration of convert_usd_to_sats
CacheInitAgeSeconds == 3600 \* PRICE_CACHE starts Duration::hours(1) old
SatsPerUsd         == 2000000 \* SATS_PER_USD of LightningProvider::convert_usd_to_sats

UserIds   == 1..MaxUsers
PayIds    == 1..MaxPayments          \* PaymentRequest ids (uuid), in order of creation
ExtIds    == 1..MaxPayments          \* external ids the providers hand out
HashIds   == 1..(MaxPayments + 1)    \* ids a webhook may name: one is foreign
PollIds   == PayIds                  \* poll task spawned by creation p
WebhookIds == (MaxPayments + 1)..(MaxPayments + MaxWebhooks)
TaskIds   == PollIds \cup WebhookIds

\* config.offers: the default OFFERS_JSON
Offers == [offer1 |-> [credits |-> 1, cents |-> 1],
           offer2 |-> [credits |-> 5, cents |-> 5]]
OfferIds == DOMAIN Offers
Methods == {"lightning", "coinbase"}

VARIABLES
    now,         \* Utc::now(), seconds
    providers,   \* [lightning, coinbase]: provider is Some after init_providers;
                 \* secret: config.coinbase_webhook_secret is Some
    users,       \* user:<id>      -> [exists, credits]
    payKey,      \* payment:<id>   -> [val: PaymentRequest, dies: instant the key expires]
    extKey,      \* external_payment:<ext> -> [target: payment id, dies]
    charges,     \* provider side: ext id -> method of the charge ("none": not issued)
    paid,        \* provider side: ext ids the provider reports as paid
    cr,          \* process_payment_request calls
    task,        \* poll tasks and webhook handlers
    grants,      \* history: credit updates applied on behalf of each PaymentRequest
    wasPaid,     \* history: the requests whose record was ever written as Paid
    calc,        \* one call of update_user_credits on its own: [credits, delta, out]
    upd,         \* concurrent calls of update_user_credits on one user record
    quote,       \* utils::PRICE_CACHE and the calls of convert_usd_to_sats
    inv,         \* one Lightning invoice on its own: offer amount, rate, amounts computed
    st,          \* RedisStorage's payment keys on their own, clock in fractions of a second
    fr,          \* settlements among several users and PaymentRequests
    mt           \* get_latest_block requests of one user

vars == <<now, providers, users, payKey, extKey, charges, paid, cr, task, grants,
          wasPaid, calc, upd, quote, inv, st, fr, mt>>

\* ------------------------------------------------------------------ data
\* models::PaymentRequest; external_id 0 is None, id 0 is "no request"
NoReq == [id |-> 0, user_id |-> 0, offer_id |-> "none", credits |-> 0,
          status |-> "none", method |-> "none", expires_at |-> 0,
          external_id |-> 0]

\* PaymentRequest::new
NewPaymentRequest(id, user_id, offer_id, credits, method, expires_at) ==
    [id |-> id, user_id |-> user_id, offer_id |-> offer_id, credits |-> credits,
     status |-> "Pending", method |-> method, expires_at |-> expires_at,
     external_id |-> 0]

NoPayKey == [val |-> NoReq, dies |-> 0]
NoExtKey == [target |-> 0, dies |-> 0]

\* a key set with SETEX is readable until its TTL has run out
Alive(k, t) == t < k.dies

\* store_payment_request: the TTL it computes at instant t
Ttl(req, t) ==
    IF req.expires_at > t THEN req.expires_at - t ELSE TtlFloorSeconds

\* store_payment_request, first SETEX: the payment record
WriteRecord(pk, req, ttl, t) ==
    [pk EXCEPT ![req.id] = [val |-> req, dies |-> t + ttl]]

\* store_payment_request, second SETEX: the index entry, only with an external id
WriteIndexMut_Skip(ek, req, ttl, t) == ek
WriteIndex(ek, req, ttl, t) ==
    IF req.external_id # 0
    THEN [ek EXCEPT ![req.external_id] = [target |-> req.id, dies |-> t + ttl]]
    ELSE ek

\* store_payment_request: the order of its two SETEX
StoreOrderMut_IndexFirst == <<"index", "record">>
StoreOrder == <<"record", "index">>

\* store_payment_request: the store after its i-th SETEX
StoreStep(i, pk, ek, req, ttl, t) ==
    IF StoreOrder[i] = "record"
    THEN [payKey |-> WriteRecord(pk, req, ttl, t), extKey |-> ek]
    ELSE [payKey |-> pk, extKey |-> WriteIndex(ek, req, ttl, t)]

\* get_payment_request_by_external_id: GET of the index entry, then of the record
LookupInMut_ByPaymentId(pk, ek, ext, t) ==
    IF ext \notin ExtIds \/ ~Alive(pk[ext], t)
    THEN [err |-> "NotFound", req |-> NoReq]
    ELSE [err |-> "none", req |-> pk[ext].val]
LookupIn(pk, ek, ext, t) ==
    IF ext \notin ExtIds \/ ~Alive(ek[ext], t)
    THEN [err |-> "NotFound", req |-> NoReq]
    ELSE IF ~Alive(pk[ek[ext].target], t)
         THEN [err |-> "NotFound", req |-> NoReq]
         ELSE [err |-> "none", req |-> pk[ek[ext].target].val]
Lookup(ext, t) == LookupIn(payKey, extKey, ext, t)

\* what can happen to a lookup: Redis answers its GETs, the pool hands out no
\* connection (StorageError::PoolError), or a GET fails, and every failure of
\* a GET is turned into PaymentRequestNotFound by map_err(|_| ..)
LookupAnswers == {"answered", "no_connection", "get_failed"}
LookupAnswered(ext, t, a) ==
    IF a = "get_failed" THEN [err |-> "NotFound", req |-> NoReq]
    ELSE Lookup(ext, t)

\* ------------------------------------------------- 32-bit machine words
\* A u32 or i32 is its bit pattern, kept as two 16-bit limbs [hi, lo].
Limb == 2 ^ 16
HalfLimb == Limb \div 2

\* the word of a small non-negative number
ToWord(n) == [hi |-> n \div Limb, lo |-> n % Limb]
\* the number a u32 word stands for (only for words below 2^31)
WordVal(w) == w.hi * Limb + w.lo
\* the i32 word of a small integer, two's complement
I32(n) == IF n >= 0 THEN ToWord(n)
          ELSE IF (-n) % Limb = 0
               THEN [hi |-> (Limb - ((-n) \div Limb)) % Limb, lo |-> 0]
               ELSE [hi |-> Limb - 1 - ((-n) \div Limb), lo |-> Limb - ((-n) % Limb)]

\* delta < 0 for an i32
IsNegative(d) == d.hi >= HalfLimb
\* i32::unsigned_abs
UnsignedAbs(d) ==
    IF IsNegative(d)
    THEN IF d.lo = 0 THEN [hi |-> (Limb - d.hi) % Limb, lo |-> 0]
         ELSE [hi |-> Limb - 1 - d.hi, lo |-> Limb - d.lo]
    ELSE d
\* a < b for u32
LessU32(a, b) == a.hi < b.hi \/ (a.hi = b.hi /\ a.lo < b.lo)
\* a - b for u32, a >= b
SubU32(a, b) ==
    IF a.lo >= b.lo THEN [hi |-> a.hi - b.hi, lo |-> a.lo - b.lo]
    ELSE [hi |-> a.hi - b.hi - 1, lo |-> a.lo + Limb - b.lo]
\* a + b for u32: the wrapped sum and whether it overflowed
AddU32(a, b) ==
    LET lo == a.lo + b.lo
        c  == IF lo >= Limb THEN 1 ELSE 0
        hi == a.hi + b.hi + c
    IN [sum |-> [hi |-> hi % Limb, lo |-> lo % Limb], overflow |-> hi >= Limb]

\* update_user_credits: the new value of user.credits (credits: u32, delta: i32).
\* An overflowing += panics in a debug build and wraps in a release build.
ApplyDeltaMut_NoClamp(credits, delta) ==
    IF IsNegative(delta)
    THEN {[panic |-> FALSE,
           credits |-> IF LessU32(credits, UnsignedAbs(delta))
                       THEN AddU32(credits, delta).sum
                       ELSE SubU32(credits, UnsignedAbs(delta))]}
    ELSE {[panic |-> FALSE, credits |-> AddU32(credits, delta).sum]}
ApplyDelta(credits, delta) ==
    IF IsNegative(delta) /\ LessU32(credits, UnsignedAbs(delta))
    THEN {[panic |-> FALSE, credits |-> ToWord(0)]}
    ELSE IF IsNegative(delta)
         THEN {[panic |-> FALSE, credits |-> SubU32(credits, UnsignedAbs(delta))]}
         ELSE IF AddU32(credits, delta).overflow
              THEN {[panic |-> TRUE, credits |-> credits],
                    [panic |-> FALSE, credits |-> AddU32(credits, delta).sum]}
              ELSE {[panic |-> FALSE, credits |-> AddU32(credits, delta).sum]}

\* ------------------------------------------------------------- processes
IdleCr == [pc |-> "idle", req |-> NoReq, ttl |-> 0, result |-> "none"]
IdleTask == [kind |-> "none", pc |-> "idle", hash |-> 0,
             flag |-> FALSE, sig |-> "none", check |-> "none",
             req |-> NoReq, ttl |-> 0, ucred |-> 0, start |-> 0,
             result |-> "none", exit |-> "none"]

\* the handler or task returns: its answer is kept, with the id it was about
Finish(t, result, exit) ==
    [IdleTask EXCEPT !.pc = "done", !.hash = t.hash, !.sig = t.sig,
                     !.result = result, !.exit = exit]

\* lightning_webhook / coinbase_webhook: the status code of the answer
\* (0: the handler panicked and sent no answer)
HttpStatusMut_ServerError(result) ==
    IF result \in {"OkSome", "OkNone"} THEN 200 ELSE 500
HttpStatus(result) ==
    IF result \in {"OkSome", "OkNone"} THEN 200
    ELSE IF result = "Err" THEN 400 ELSE 0

\* initiate_payment picks its answer by the phrases the Display text of the
\* error contains.  A text is kept as the set of these phrases it contains.
Phrases == {"Offer not found", "Invalid payment method", "User not found"}

\* the texts an error of process_payment_request can have: that of
\* InvalidPaymentMethod is fixed, that of InvalidOffer ends with the offer_id
\* of the request, the others end with the text of the store, the provider
\* or the ticker
ErrorTexts(kind) ==
    IF kind = "InvalidPaymentMethod" THEN {{"Invalid payment method"}}
    ELSE SUBSET Phrases

\* initiate_payment: the message of the error answer
ErrorMessage(text) ==
    IF "Offer not found" \in text THEN "Invalid offer ID"
    ELSE IF "Invalid payment method" \in text THEN "Invalid payment method"
    ELSE IF "User not found" \in text THEN "Invalid user token"
    ELSE "Failed to process payment request"

\* initiate_payment: the status code of the error answer
ErrorStatusMut_ServerError(message) ==
    IF message = "Invalid user token" THEN 401 ELSE 500
ErrorStatus(message) ==
    IF message = "Invalid user token" THEN 401 ELSE 400

NoCalc == [credits |-> ToWord(0), delta |-> ToWord(0), out |-> {}]
NoUpd == [initial |-> ToWord(0), stored |-> ToWord(0), calls |-> <<>>]
NoQuote == [cache |-> [init |-> FALSE, stamp |-> 0, rate |-> 0], calls |-> <<>>,
            lock |-> 0]
NoInv == [pc |-> "none", cents |-> 0, rate |-> 0, sats |-> 0, invoice |-> 0]
\* the last write command sent to Redis for a payment record: SETEX with the
\* TTL handed over, or SET; left is expires_at - now when it was sent
NoCmd == [op |-> "none", ttl |-> 0, left |-> 0]
NoFr == [now |-> 0, users |-> <<>>, payKey |-> <<>>, extKey |-> <<>>, task |-> <<>>]
NoMt == [start |-> 0, credits |-> 0, calls |-> <<>>]
NoSt == [now |-> 0, pay |-> <<>>, ext |-> <<>>, calls |-> <<>>, last |-> NoCmd]

\* init_providers: a provider is Some when it is enabled and its new()
\* returned Ok (made); an Err of new() is logged and the result is Ok(())
InitProviders(lightning_made, coinbase_made) ==
    [result |-> "Ok", lightning |-> lightning_made, coinbase |-> coinbase_made]

\* self.<method>_provider.as_ref() is Some
HasProviderMut_Any(method) == providers.lightning \/ providers.coinbase
HasProvider(method) == providers[method]

Init ==
    /\ now = 0
    /\ providers \in
         {pr \in [lightning : BOOLEAN, coinbase : BOOLEAN, secret : BOOLEAN] :
            /\ pr.secret => pr.coinbase
            /\ \E lightning_made, coinbase_made \in BOOLEAN :
                 LET made == InitProviders(lightning_made, coinbase_made)
                 IN /\ made.result = "Ok"
                    /\ pr.lightning = made.lightning
                    /\ pr.coinbase = made.coinbase}
    /\ users = [u \in UserIds |-> [exists |-> FALSE, credits |-> 0]]
    /\ payKey = [p \in PayIds |-> NoPayKey]
    /\ extKey = [e \in ExtIds |-> NoExtKey]
    /\ charges = [e \in ExtIds |-> "none"]
    /\ paid = {}
    /\ cr = [p \in PayIds |-> IdleCr]
    /\ task = [k \in TaskIds |-> IdleTask]
    /\ grants = [p \in PayIds |-> 0]
    /\ wasPaid = {}
    /\ calc = NoCalc
    /\ upd = NoUpd
    /\ quote = NoQuote
    /\ inv = NoInv
    /\ fr = NoFr
    /\ mt = NoMt
    /\ st = NoSt

\* signup: a fresh user with one free credit (a failed SET changes nothing)
Signup(u) ==
    /\ ~users[u].exists
    /\ \A v \in UserIds : v < u => users[v].exists
    /\ users' = [users EXCEPT ![u] = [exists |-> TRUE, credits |-> SignupCredits]]
    /\ UNCHANGED <<now, providers, payKey, extKey, charges, paid, cr, task, grants, wasPaid, calc, upd, quote, inv, st, fr, mt>>

\* the instants at which a running poll task finds its timeout exceeded
PollDeadlines ==
    {task[k].start + PollTimeoutMinutes * 60 + 1 :
        k \in {j \in PollIds : task[j].pc \notin {"idle", "start", "done"}}}

\* the instants at which a time comparison of the code changes its value
Deadlines ==
    {cr[p].req.expires_at : p \in PayIds}
    \cup {cr[p].req.expires_at + 1 : p \in PayIds}
    \cup {payKey[p].dies : p \in PayIds}
    \cup {extKey[e].dies : e \in ExtIds}
    \cup PollDeadlines
    \cup {t \in {now + 1} : now < MaxSkew}

\* time passes, up to the next instant that matters or beyond; Redis drops
\* the keys whose TTL has run out
Tick ==
    /\ \E t \in Deadlines :
         /\ t > now /\ (t <= MaxTime \/ t \in PollDeadlines) /\ now' = t
         /\ payKey' = [p \in PayIds |-> IF Alive(payKey[p], t) THEN payKey[p] ELSE NoPayKey]
         /\ extKey' = [e \in ExtIds |-> IF Alive(extKey[e], t) THEN extKey[e] ELSE NoExtKey]
    /\ UNCHANGED <<providers, users, charges, paid, cr, task, grants, wasPaid, calc, upd, quote, inv, st, fr, mt>>

\* the payer pays the charge at the provider
ProviderPays(e) ==
    /\ charges[e] # "none"
    /\ e \notin paid
    /\ paid' = paid \cup {e}
    /\ UNCHANGED <<now, providers, users, payKey, extKey, charges, cr, task, grants, wasPaid, calc, upd, quote, inv, st, fr, mt>>

\* LightningProvider::check_invoice: the answers the provider can give
CheckInvoice(hash) ==
    {"error"} \cup (IF hash \in ExtIds /\ charges[hash] = "lightning"
                    THEN {IF hash \in paid THEN "true" ELSE "false"}
                    ELSE {})

\* ------------------------------------------------- process_payment_request
CrFail(p, why) == cr' = [cr EXCEPT ![p] = [@ EXCEPT !.pc = "failed", !.result = why]]

\* offer lookup and PaymentRequest::new
StartCreate(p, oid, method, token) ==
    /\ cr[p].pc = "idle"
    /\ \A q \in PayIds : q < p => cr[q].pc # "idle"
    /\ IF oid \notin OfferIds
       THEN CrFail(p, "InvalidOffer")
       ELSE cr' = [cr EXCEPT ![p] =
                [@ EXCEPT !.pc = "persist1",
                          !.req = NewPaymentRequest(p, token, oid, Offers[oid].credits,
                                     method, now + ExpiryMinutes * 60)]]
    /\ UNCHANGED <<now, providers, users, payKey, extKey, charges, paid, task, grants, wasPaid, calc, upd, quote, inv, st, fr, mt>>

\* first store_payment_request (no external id yet: the record alone), then
\* the provider is looked up
Persist1(p) ==
    /\ cr[p].pc = "persist1"
    /\ \E ok \in BOOLEAN :
         IF ~ok
         THEN CrFail(p, "StorageError") /\ UNCHANGED <<payKey, extKey>>
         ELSE LET ttl == Ttl(cr[p].req, now)
                  s1  == StoreStep(1, payKey, extKey, cr[p].req, ttl, now)
                  s2  == StoreStep(2, s1.payKey, s1.extKey, cr[p].req, ttl, now)
              IN /\ payKey' = s2.payKey
                 /\ extKey' = s2.extKey
                 /\ IF ~HasProvider(cr[p].req.method)
                    THEN CrFail(p, "InvalidPaymentMethod")
                    ELSE cr' = [cr EXCEPT ![p].pc =
                                  IF cr[p].req.method = "lightning"
                                  THEN "convert" ELSE "charge"]
    /\ UNCHANGED <<now, providers, users, charges, paid, task, grants, wasPaid, calc, upd, quote, inv, st, fr, mt>>

\* utils::convert_usd_to_sats, Lightning only
Convert(p) ==
    /\ cr[p].pc = "convert"
    /\ \E ok \in BOOLEAN :
         IF ok THEN cr' = [cr EXCEPT ![p].pc = "charge"]
         ELSE CrFail(p, "ConversionError")
    /\ UNCHANGED <<now, providers, users, payKey, extKey, charges, paid, task, grants, wasPaid, calc, upd, quote, inv, st, fr, mt>>

\* create_invoice / create_charge: the provider hands out a new external id
Charge(p) ==
    /\ cr[p].pc = "charge"
    /\ \E ok \in BOOLEAN :
         IF ok
         THEN LET e == 1 + Cardinality({x \in ExtIds : charges[x] # "none"})
              IN /\ charges' = [charges EXCEPT ![e] = cr[p].req.method]
                 /\ cr' = [cr EXCEPT ![p].pc = "persist2",
                                     ![p].req.external_id = e]
         ELSE CrFail(p, "ProviderError") /\ UNCHANGED charges
    /\ UNCHANGED <<now, providers, users, payKey, extKey, paid, task, grants, wasPaid, calc, upd, quote, inv, st, fr, mt>>

\* second store_payment_request, with the external id: its first SETEX
Persist2First(p) ==
    /\ cr[p].pc = "persist2"
    /\ \E ok \in BOOLEAN :
         IF ok
         THEN LET ttl == Ttl(cr[p].req, now)
                  s1  == StoreStep(1, payKey, extKey, cr[p].req, ttl, now)
              IN /\ payKey' = s1.payKey
                 /\ extKey' = s1.extKey
                 /\ cr' = [cr EXCEPT ![p].pc = "persist2_second", ![p].ttl = ttl]
         ELSE CrFail(p, "StorageError") /\ UNCHANGED <<payKey, extKey>>
    /\ UNCHANGED <<now, providers, users, charges, paid, task, grants, wasPaid, calc, upd, quote, inv, st, fr, mt>>

\* which creations end with tokio::spawn of start_payment_polling: those of
\* create_lightning_payment, not those of create_coinbase_payment
SpawnsPollMut_Always(method) == TRUE
SpawnsPoll(method) == method = "lightning"

\* second store_payment_request: its second SETEX; then the poll task is
\* spawned (Lightning) and the call returns
Persist2Second(p) ==
    /\ cr[p].pc = "persist2_second"
    /\ \E ok \in BOOLEAN :
         IF ok
         THEN LET s2 == StoreStep(2, payKey, extKey, cr[p].req, cr[p].ttl, now)
              IN /\ payKey' = s2.payKey
                 /\ extKey' = s2.extKey
                 /\ cr' = [cr EXCEPT ![p].pc = "done", ![p].result = "Ok"]
                 /\ task' = IF SpawnsPoll(cr[p].req.method)
                            THEN [task EXCEPT ![p] =
                                    [IdleTask EXCEPT !.kind = "poll", !.pc = "start",
                                                     !.hash = cr[p].req.external_id]]
                            ELSE task
         ELSE CrFail(p, "StorageError") /\ UNCHANGED <<payKey, extKey, task>>
    /\ UNCHANGED <<now, providers, users, charges, paid, grants, wasPaid, calc, upd, quote, inv, st, fr, mt>>

\* ------------------------------------------------------------ settlement
\* process_successful_payment: the idempotency guard
SettleGuardMut_Always(req) == TRUE
SettleGuard(req) == req.status = "Pending"

\* what a failed step of process_successful_payment leads to: the poll loop
\* logs and polls again, a webhook handler returns the error
OnSettleError(t) ==
    IF t.kind = "poll"
    THEN [t EXCEPT !.pc = "check", !.req = NoReq, !.ttl = 0, !.ucred = 0]
    ELSE Finish(t, "Err", "settle_error")

\* process_successful_payment returned Ok(())
OnSettleOk(t, exit) ==
    IF t.kind = "poll"
    THEN Finish(t, "Ok", exit)
    ELSE Finish(t, "OkSome", exit)

\* process_successful_payment entered with the request just loaded
EnterSettle(t, req) ==
    IF SettleGuard(req)
    THEN [t EXCEPT !.pc = "store_first", !.req = [req EXCEPT !.status = "Paid"]]
    ELSE OnSettleOk(t, "noop")

\* the requests ever stored as Paid, after the i-th SETEX of req
PaidAfter(i, req) ==
    IF StoreOrder[i] = "record" /\ req.status = "Paid"
    THEN wasPaid \cup {req.id} ELSE wasPaid

\* store_payment_request of the settled request: its first SETEX
SettleStoreFirst(k) ==
    /\ task[k].pc = "store_first"
    /\ \E ok \in BOOLEAN :
         IF ok
         THEN LET ttl == Ttl(task[k].req, now)
                  s1  == StoreStep(1, payKey, extKey, task[k].req, ttl, now)
              IN /\ payKey' = s1.payKey
                 /\ extKey' = s1.extKey
                 /\ wasPaid' = PaidAfter(1, task[k].req)
                 /\ task' = [task EXCEPT ![k].pc = "store_second", ![k].ttl = ttl]
         ELSE /\ task' = [task EXCEPT ![k] = OnSettleError(task[k])]
              /\ UNCHANGED <<payKey, extKey, wasPaid>>
    /\ UNCHANGED <<now, providers, users, charges, paid, cr, grants, calc, upd, quote, inv, st, fr, mt>>

\* store_payment_request of the settled request: its second SETEX
SettleStoreSecond(k) ==
    /\ task[k].pc = "store_second"
    /\ \E ok \in BOOLEAN :
         IF ok
         THEN LET s2 == StoreStep(2, payKey, extKey, task[k].req, task[k].ttl, now)
              IN /\ payKey' = s2.payKey
                 /\ extKey' = s2.extKey
                 /\ wasPaid' = PaidAfter(2, task[k].req)
                 /\ task' = [task EXCEPT ![k].pc = "credit_get"]
         ELSE /\ task' = [task EXCEPT ![k] = OnSettleError(task[k])]
              /\ UNCHANGED <<payKey, extKey, wasPaid>>
    /\ UNCHANGED <<now, providers, users, charges, paid, cr, grants, calc, upd, quote, inv, st, fr, mt>>

\* update_user_credits: GET of the user record
CreditGet(k) ==
    /\ task[k].pc = "credit_get"
    /\ \E ok \in BOOLEAN :
         IF ok /\ task[k].req.user_id \in UserIds /\ users[task[k].req.user_id].exists
         THEN task' = [task EXCEPT ![k].pc = "credit_set",
                                   ![k].ucred = users[task[k].req.user_id].credits]
         ELSE task' = [task EXCEPT ![k] = OnSettleError(task[k])]
    /\ UNCHANGED <<now, providers, users, payKey, extKey, charges, paid, cr, grants, wasPaid, calc, upd, quote, inv, st, fr, mt>>

\* the delta process_successful_payment passes: payment_request.credits as i32
CreditDeltaMut_One(req) == ToWord(1)
CreditDelta(req) == ToWord(req.credits)

\* update_user_credits: the new balance and the SET of the user record
CreditSet(k) ==
    /\ task[k].pc = "credit_set"
    /\ \E ok \in BOOLEAN :
       \E out \in ApplyDelta(ToWord(task[k].ucred), CreditDelta(task[k].req)) :
         IF out.panic
         THEN /\ task' = [task EXCEPT ![k] = Finish(task[k], "Panic", "panic")]
              /\ UNCHANGED <<users, grants>>
         ELSE IF ok
              THEN /\ users' = [users EXCEPT ![task[k].req.user_id].credits =
                                                 WordVal(out.credits)]
                   /\ grants' = [grants EXCEPT ![task[k].req.id] = @ + 1]
                   /\ task' = [task EXCEPT ![k] = OnSettleOk(task[k], "settled")]
              ELSE /\ task' = [task EXCEPT ![k] = OnSettleError(task[k])]
                   /\ UNCHANGED <<users, grants>>
    /\ UNCHANGED <<now, providers, payKey, extKey, charges, paid, cr, wasPaid, calc, upd, quote, inv, st, fr, mt>>

\* ------------------------------------------------- start_payment_polling
\* the spawned task starts to run: start_time = Utc::now()
PollStart(k) ==
    /\ task[k].kind = "poll" /\ task[k].pc = "start"
    /\ task' = [task EXCEPT ![k].pc = "check", ![k].start = now]
    /\ UNCHANGED <<now, providers, users, payKey, extKey, charges, paid, cr, grants, wasPaid, calc, upd, quote, inv, st, fr, mt>>

\* Utc::now() - start_time > timeout_duration
PollTimedOutMut_Never(start, t) == FALSE
PollTimedOut(start, t) == t - start > PollTimeoutMinutes * 60

\* top of the loop: the timeout, then check_invoice; anything but paid sleeps
PollCheck(k) ==
    /\ task[k].kind = "poll" /\ task[k].pc = "check"
    /\ IF PollTimedOut(task[k].start, now)
       THEN task' = [task EXCEPT ![k] = OnSettleOk(task[k], "timeout")]
       ELSE \E r \in CheckInvoice(task[k].hash) :
              task' = [task EXCEPT ![k].pc = IF r = "true" THEN "load" ELSE "check"]
    /\ UNCHANGED <<now, providers, users, payKey, extKey, charges, paid, cr, grants, wasPaid, calc, upd, quote, inv, st, fr, mt>>

\* get_payment_request_by_external_id, then process_successful_payment
PollLoad(k) ==
    /\ task[k].kind = "poll" /\ task[k].pc = "load"
    /\ \E a \in LookupAnswers :
         LET res == LookupAnswered(task[k].hash, now, a) IN
         IF a = "no_connection" THEN task' = [task EXCEPT ![k].pc = "check"]
         ELSE IF res.err = "NotFound"
              THEN task' = [task EXCEPT ![k] = OnSettleOk(task[k], "not_found")]
              ELSE task' = [task EXCEPT ![k] = EnterSettle(task[k], res.req)]
    /\ UNCHANGED <<now, providers, users, payKey, extKey, charges, paid, cr, grants, wasPaid, calc, upd, quote, inv, st, fr, mt>>

\* ------------------------------------------------------------- webhooks
\* process_*_webhook after the lookup: which way the handler goes
WebhookGateMut_ErrOnNotFound(res, t) ==
    IF res.err = "NotFound" THEN "error"
    ELSE IF res.req.status = "Paid" THEN "already_paid"
    ELSE IF t > res.req.expires_at THEN "expired"
    ELSE "proceed"
WebhookGateMut_NoPaidCheck(res, t) ==
    IF res.err = "NotFound" THEN "not_found"
    ELSE IF t > res.req.expires_at THEN "expired"
    ELSE "proceed"
WebhookGateMut_NoExpiry(res, t) ==
    IF res.err = "NotFound" THEN "not_found"
    ELSE IF res.req.status = "Paid" THEN "already_paid"
    ELSE "proceed"
WebhookGate(res, t) ==
    IF res.err = "NotFound" THEN "not_found"
    ELSE IF res.req.status = "Paid" THEN "already_paid"
    ELSE IF t > res.req.expires_at THEN "expired"
    ELSE "proceed"

\* CoinbaseProvider::is_payment_completed
IsPaymentCompletedMut_TypeOnly(evtype, status) == evtype = "charge:confirmed"
IsPaymentCompleted(evtype, status) ==
    evtype = "charge:confirmed" /\ status = "CONFIRMED"

\* process_*_webhook from the lookup by external id up to the next await
AfterVerify(t, completed, a) ==
    LET res  == LookupAnswered(t.hash, now, a)
        gate == WebhookGate(res, now)
    IN IF a = "no_connection" THEN Finish(t, "Err", "storage_error")
       ELSE IF gate = "error" THEN Finish(t, "Err", "error")
       ELSE IF gate # "proceed" THEN Finish(t, "OkNone", gate)
       ELSE IF t.kind = "lightning" THEN [t EXCEPT !.pc = "verify", !.req = res.req]
       ELSE IF ~completed THEN Finish(t, "OkNone", "not_completed")
       ELSE EnterSettle(t, res.req)

\* POST /webhook/lightning: provider lookup, verify_webhook (parse only; the
\* payload's payment_status is read by nothing), lookup of the request.
\* a: what happens to the lookup
ReceiveLightningWebhook(w, wellformed, hash, flag, a) ==
    /\ task[w].pc \in {"idle", "done"}
    /\ LET t == [IdleTask EXCEPT !.kind = "lightning"]
       IN task' = [task EXCEPT ![w] =
            IF ~HasProvider("lightning") THEN Finish(t, "Err", "no_provider")
            ELSE IF ~wellformed THEN Finish(t, "Err", "bad_request")
            ELSE AfterVerify([t EXCEPT !.hash = hash, !.flag = flag], flag, a)]
    /\ UNCHANGED <<now, providers, users, payKey, extKey, charges, paid, cr, grants, wasPaid, calc, upd, quote, inv, st, fr, mt>>

\* the X-CC-Webhook-Signature header against the body: absent (the handler
\* passes ""), not the hex HMAC-SHA256 of the body, or that HMAC
Signatures == {"empty", "mismatch", "hmac"}

\* CoinbaseProvider::verify_webhook up to the parse of the body
VerifySignatureMut_AcceptEmpty(secret, sig) ==
    IF ~secret THEN "no_secret"
    ELSE IF sig = "mismatch" THEN "bad_signature"
    ELSE "ok"
VerifySignature(secret, sig) ==
    IF ~secret THEN "no_secret"
    ELSE IF sig # "hmac" THEN "bad_signature"
    ELSE "ok"

\* POST /webhook/coinbase: provider lookup, verify_webhook (HMAC, parse),
\* lookup of the request, is_payment_completed
ReceiveCoinbaseWebhook(w, sig, wellformed, hash, evtype, status, a) ==
    /\ task[w].pc \in {"idle", "done"}
    /\ LET t == [IdleTask EXCEPT !.kind = "coinbase", !.sig = sig]
           v == VerifySignature(providers.secret, sig)
       IN task' = [task EXCEPT ![w] =
            IF ~HasProvider("coinbase") THEN Finish(t, "Err", "no_provider")
            ELSE IF v # "ok" THEN Finish(t, "Err", v)
            ELSE IF ~wellformed THEN Finish(t, "Err", "bad_request")
            ELSE AfterVerify([t EXCEPT !.hash = hash],
                             IsPaymentCompleted(evtype, status), a)]
    /\ UNCHANGED <<now, providers, users, payKey, extKey, charges, paid, cr, grants, wasPaid, calc, upd, quote, inv, st, fr, mt>>

\* process_lightning_webhook: what the answer r of check_invoice leads to
\* for a payload whose payment_status is flag
VerifyOutcomeMut_TrustFlag(r, flag) ==
    IF r = "error" THEN (IF flag THEN "settle" ELSE "fail")
    ELSE IF r = "false" THEN "none"
    ELSE "settle"
VerifyOutcome(r, flag) ==
    IF r = "error" THEN "fail"
    ELSE IF r = "false" THEN "none"
    ELSE "settle"

\* Lightning: check_invoice, then process_successful_payment
LightningVerify(w) ==
    /\ task[w].kind = "lightning" /\ task[w].pc = "verify"
    /\ \E r \in CheckInvoice(task[w].hash) :
         LET o == VerifyOutcome(r, task[w].flag)
         IN task' = [task EXCEPT ![w] =
              IF o = "fail" THEN Finish(task[w], "Err", "provider_error")
              ELSE IF o = "none" THEN Finish(task[w], "OkNone", "not_settled")
              ELSE EnterSettle([task[w] EXCEPT !.req = NoReq, !.check = r],
                               task[w].req)]
    /\ UNCHANGED <<now, providers, users, payKey, extKey, charges, paid, cr, grants, wasPaid, calc, upd, quote, inv, st, fr, mt>>

\* ---------------------------------------------------------- specification
\* the request bodies tried: one that does not parse, and every event
LightningBodies ==
    {[wellformed |-> FALSE, hash |-> 0, flag |-> FALSE]}
    \cup [wellformed : {TRUE}, hash : HashIds, flag : BOOLEAN]
CoinbaseBodies ==
    {[wellformed |-> FALSE, hash |-> 0, evtype |-> "", status |-> ""]}
    \cup [wellformed : {TRUE}, hash : HashIds,
          evtype : {"charge:confirmed", "charge:failed"},
          status : {"CONFIRMED", "PENDING"}]

\* a body whose signature is refused is never parsed: one body stands for all
SignedBodies(sig) ==
    IF sig = "hmac" THEN CoinbaseBodies
    ELSE {[wellformed |-> TRUE, hash |-> 1, evtype |-> "charge:confirmed",
           status |-> "CONFIRMED"]}
\* what happens to the lookup, for the requests that get that far; a lookup
\* that fails ends the same way whatever the event says besides the id, so
\* one event for each id is tried with the failures
StoreAnswers(reaches) == IF reaches THEN LookupAnswers ELSE {"answered"}

Next ==
    \/ \E u \in UserIds : Signup(u)
    \/ Tick
    \/ \E e \in ExtIds : ProviderPays(e)
    \/ \E p \in PayIds, oid \in OfferIds \cup {"bogus"}, m \in Methods, u \in UserIds :
         StartCreate(p, oid, m, u)
    \/ \E p \in PayIds : Persist1(p)
    \/ \E p \in PayIds : Convert(p)
    \/ \E p \in PayIds : Charge(p)
    \/ \E p \in PayIds : Persist2First(p)
    \/ \E p \in PayIds : Persist2Second(p)
    \/ \E k \in PollIds : PollStart(k)
    \/ \E k \in PollIds : PollCheck(k)
    \/ \E k \in PollIds : PollLoad(k)
    \/ \E w \in WebhookIds, ev \in LightningBodies :
         \E a \in StoreAnswers(ev.wellformed /\ ev.flag) :
           ReceiveLightningWebhook(w, ev.wellformed, ev.hash, ev.flag, a)
    \/ \E w \in WebhookIds, sig \in Signatures :
         \E ev \in SignedBodies(sig) :
           \E a \in StoreAnswers(ev.wellformed /\ sig = "hmac"
                                  /\ IsPaymentCompleted(ev.evtype, ev.status)) :
             ReceiveCoinbaseWebhook(w, sig, ev.wellformed, ev.hash, ev.evtype,
                                    ev.status, a)
    \/ \E w \in WebhookIds : LightningVerify(w)
    \/ \E k \in TaskIds : SettleStoreFirst(k)
    \/ \E k \in TaskIds : SettleStoreSecond(k)
    \/ \E k \in TaskIds : CreditGet(k)
    \/ \E k \in TaskIds : CreditSet(k)

Spec == Init /\ [][Next]_vars

\* a step of the poll task k: the tokio runtime keeps running a spawned task
PollStep(k) ==
    \/ PollStart(k) \/ PollCheck(k) \/ PollLoad(k)
    \/ SettleStoreFirst(k) \/ SettleStoreSecond(k)
    \/ CreditGet(k) \/ CreditSet(k)

\* the same program with every provider configured (poll tasks exist only
\* with the Lightning provider), a fair scheduler and a clock that advances
InitFair == Init /\ providers.lightning /\ providers.coinbase /\ providers.secret
SpecFair ==
    /\ InitFair /\ [][Next]_vars
    /\ WF_vars(Tick)
    /\ \A k \in PollIds : WF_vars(PollStep(k))

\* ------------------------------------- update_user_credits on its own
\* balances and deltas at and around the limits of u32 and i32
CreditSamples ==
    {ToWord(0), ToWord(1), ToWord(2), ToWord(5),
     [hi |-> 0, lo |-> Limb - 1], [hi |-> 1, lo |-> 0],
     [hi |-> HalfLimb - 1, lo |-> Limb - 1], [hi |-> HalfLimb, lo |-> 0],
     [hi |-> Limb - 1, lo |-> Limb - 1]}
DeltaSamples ==
    {I32(-1), I32(-2), I32(-5), I32(-6), I32(-65536), I32(-65537),
     I32(-2147483647), [hi |-> HalfLimb, lo |-> 0],
     I32(0), I32(1), I32(5), [hi |-> HalfLimb - 1, lo |-> Limb - 1]}

InitCredits ==
    /\ now = 0
    /\ providers = [lightning |-> TRUE, coinbase |-> TRUE, secret |-> TRUE]
    /\ users = [u \in UserIds |-> [exists |-> FALSE, credits |-> 0]]
    /\ payKey = [p \in PayIds |-> NoPayKey]
    /\ extKey = [e \in ExtIds |-> NoExtKey]
    /\ charges = [e \in ExtIds |-> "none"]
    /\ paid = {}
    /\ cr = [p \in PayIds |-> IdleCr]
    /\ task = [k \in TaskIds |-> IdleTask]
    /\ grants = [p \in PayIds |-> 0]
    /\ wasPaid = {}
    /\ calc \in [credits : CreditSamples, delta : DeltaSamples, out : {{}}]
    /\ upd = NoUpd
    /\ quote = NoQuote
    /\ inv = NoInv
    /\ fr = NoFr
    /\ mt = NoMt
    /\ st = NoSt

\* update_user_credits applied to a user record holding calc.credits
UpdateUserCredits ==
    /\ calc.out = {}
    /\ calc' = [calc EXCEPT !.out = ApplyDelta(calc.credits, calc.delta)]
    /\ UNCHANGED <<now, providers, users, payKey, extKey, charges, paid, cr, task,
                   grants, wasPaid, upd, quote, inv, st, fr, mt>>

SpecCredits == InitCredits /\ [][UpdateUserCredits]_vars

\* --------------------- the credits of a settlement, at the limits of u32
\* values of payment_request.credits, a u32
GrantSamples ==
    {ToWord(1), ToWord(5), [hi |-> 1, lo |-> 0],
     [hi |-> HalfLimb - 1, lo |-> Limb - 1], [hi |-> HalfLimb, lo |-> 0],
     [hi |-> HalfLimb, lo |-> 1], [hi |-> Limb - 1, lo |-> Limb - 1]}

\* payment_request.credits as i32: the same 32 bits, read as two's complement
\* (negative from 2^31 on)
AsI32(credits) == credits

\* granted: payment_request.credits
InitGrant ==
    /\ now = 0
    /\ providers = [lightning |-> TRUE, coinbase |-> TRUE, secret |-> TRUE]
    /\ users = [u \in UserIds |-> [exists |-> FALSE, credits |-> 0]]
    /\ payKey = [p \in PayIds |-> NoPayKey]
    /\ extKey = [e \in ExtIds |-> NoExtKey]
    /\ charges = [e \in ExtIds |-> "none"]
    /\ paid = {}
    /\ cr = [p \in PayIds |-> IdleCr]
    /\ task = [k \in TaskIds |-> IdleTask]
    /\ grants = [p \in PayIds |-> 0]
    /\ wasPaid = {}
    /\ calc \in [credits : CreditSamples, granted : GrantSamples,
                 delta : {ToWord(0)}, out : {{}}]
    /\ upd = NoUpd
    /\ quote = NoQuote
    /\ inv = NoInv
    /\ fr = NoFr
    /\ mt = NoMt
    /\ st = NoSt

\* process_successful_payment: update_user_credits(user_id, credits as i32)
\* on a user record holding calc.credits
GrantCredits ==
    /\ calc.out = {}
    /\ calc' = [calc EXCEPT !.delta = AsI32(calc.granted),
                            !.out = ApplyDelta(calc.credits, AsI32(calc.granted))]
    /\ UNCHANGED <<now, providers, users, payKey, extKey, charges, paid, cr, task,
                   grants, wasPaid, upd, quote, inv, st, fr, mt>>

SpecGrant == InitGrant /\ [][GrantCredits]_vars

\* ------------------------- update_user_credits, concurrent calls on one user
\* the balances and deltas tried: a settlement of offer1 or offer2, and the
\* deduction of get_latest_block
UpdCredits == {ToWord(0), ToWord(1), ToWord(2)}
UpdDeltas == {I32(1), I32(5), I32(-1)}
CallIds == 1..MaxCalls

InitUpdates ==
    /\ now = 0
    /\ providers = [lightning |-> TRUE, coinbase |-> TRUE, secret |-> TRUE]
    /\ users = [u \in UserIds |-> [exists |-> FALSE, credits |-> 0]]
    /\ payKey = [p \in PayIds |-> NoPayKey]
    /\ extKey = [e \in ExtIds |-> NoExtKey]
    /\ charges = [e \in ExtIds |-> "none"]
    /\ paid = {}
    /\ cr = [p \in PayIds |-> IdleCr]
    /\ task = [k \in TaskIds |-> IdleTask]
    /\ grants = [p \in PayIds |-> 0]
    /\ wasPaid = {}
    /\ calc = NoCalc
    /\ quote = NoQuote
    /\ inv = NoInv
    /\ fr = NoFr
    /\ mt = NoMt
    /\ st = NoSt
    /\ \E c \in UpdCredits, ds \in [CallIds -> UpdDeltas] :
         upd = [initial |-> c, stored |-> c,
                calls |-> [i \in CallIds |->
                             [pc |-> "get", delta |-> ds[i], read |-> ToWord(0)]]]

\* update_user_credits: GET of the user record
UpdGet(i) ==
    /\ upd.calls[i].pc = "get"
    /\ \E ok \in BOOLEAN :
         upd' = [upd EXCEPT !.calls[i] =
                   IF ok THEN [@ EXCEPT !.pc = "set", !.read = upd.stored]
                   ELSE [@ EXCEPT !.pc = "failed"]]
    /\ UNCHANGED <<now, providers, users, payKey, extKey, charges, paid, cr, task,
                   grants, wasPaid, calc, quote, inv, st, fr, mt>>

\* update_user_credits: the new balance from the record read, and its SET
UpdSet(i) ==
    /\ upd.calls[i].pc = "set"
    /\ \E ok \in BOOLEAN :
       \E out \in ApplyDelta(upd.calls[i].read, upd.calls[i].delta) :
         upd' = IF ok /\ ~out.panic
                THEN [upd EXCEPT !.stored = out.credits, !.calls[i].pc = "done"]
                ELSE [upd EXCEPT !.calls[i].pc = "failed"]
    /\ UNCHANGED <<now, providers, users, payKey, extKey, charges, paid, cr, task,
                   grants, wasPaid, calc, quote, inv, st, fr, mt>>

NextUpdates ==
    \/ \E i \in CallIds : UpdGet(i)
    \/ \E i \in CallIds : UpdSet(i)

SpecUpdates == InitUpdates /\ [][NextUpdates]_vars

\* ------------------------------------- convert_usd_to_sats and PRICE_CACHE
\* sats_per_usd as the ticker may report it at different moments
Rates == {1, 2}
ConvIds == 1..MaxConversions
\* got: the rate the ticker answered to this call, 0 when the request failed
\* or its answer could not be parsed
IdleConv == [pc |-> "idle", began |-> 0, stale |-> FALSE, fetched |-> FALSE,
             got |-> 0, used |-> 0]

InitQuote ==
    /\ now = 0
    /\ providers = [lightning |-> TRUE, coinbase |-> TRUE, secret |-> TRUE]
    /\ users = [u \in UserIds |-> [exists |-> FALSE, credits |-> 0]]
    /\ payKey = [p \in PayIds |-> NoPayKey]
    /\ extKey = [e \in ExtIds |-> NoExtKey]
    /\ charges = [e \in ExtIds |-> "none"]
    /\ paid = {}
    /\ cr = [p \in PayIds |-> IdleCr]
    /\ task = [k \in TaskIds |-> IdleTask]
    /\ grants = [p \in PayIds |-> 0]
    /\ wasPaid = {}
    /\ calc = NoCalc
    /\ upd = NoUpd
    /\ quote = [cache |-> NoQuote.cache, calls |-> [i \in ConvIds |-> IdleConv],
                lock |-> 0]
    /\ inv = NoInv
    /\ fr = NoFr
    /\ mt = NoMt
    /\ st = NoSt

\* PRICE_CACHE as a lock finds it: the Lazy is built at the first access,
\* with a timestamp one hour old and the rate 0.0
LockedCache(c, t) ==
    IF c.init THEN c
    ELSE [init |-> TRUE, stamp |-> t - CacheInitAgeSeconds, rate |-> 0]

\* needs_update: Utc::now() - cache.timestamp > cache_duration
NeedsUpdate(c, t) == t - c.stamp > CacheSeconds

\* convert_usd_to_sats is called: PRICE_CACHE.lock() inside the block that
\* computes needs_update; quote.lock is the call holding the mutex, 0 if free
QuoteCheck(i) ==
    /\ quote.calls[i].pc = "idle"
    /\ quote.lock = 0
    /\ LET c == LockedCache(quote.cache, now)
       IN quote' = [quote EXCEPT
            !.cache = c,
            !.lock = i,
            !.calls[i] = [@ EXCEPT !.began = now, !.pc = "checked",
                                   !.stale = NeedsUpdate(c, now)]]
    /\ UNCHANGED <<now, providers, users, payKey, extKey, charges, paid, cr, task,
                   grants, wasPaid, calc, upd, inv, st, fr, mt>>

\* the holder of the mutex once the block of needs_update has ended: the
\* guard `cache` is a local of that block and is dropped with it
HolderAfterCheckMut_Kept(i) == i
HolderAfterCheck(i) == 0

\* the block ends; a stale cache sends the call to the ticker
QuoteUnlock(i) ==
    /\ quote.calls[i].pc = "checked"
    /\ quote' = [quote EXCEPT
            !.lock = HolderAfterCheck(i),
            !.calls[i] = [@ EXCEPT !.pc = IF quote.calls[i].stale THEN "fetch"
                                          ELSE "read"]]
    /\ UNCHANGED <<now, providers, users, payKey, extKey, charges, paid, cr, task,
                   grants, wasPaid, calc, upd, inv, st, fr, mt>>

\* where a call goes when send, the status, json or the parse of the price
\* fails: each returns the error
AfterFetchFailureMut_StaleRead == "read"
AfterFetchFailure == "failed"

\* the answer of the ticker arrives; on success the cache is written, in a
\* block that takes the mutex and has no await
QuoteFetch(i) ==
    /\ quote.calls[i].pc = "fetch"
    /\ \E r \in Rates \cup {0} :
         /\ r # 0 => quote.lock = 0
         /\ quote' = IF r = 0
                     THEN [quote EXCEPT !.calls[i] = [@ EXCEPT !.pc = AfterFetchFailure,
                                                               !.fetched = TRUE]]
                     ELSE [quote EXCEPT
                             !.cache = [init |-> TRUE, stamp |-> now, rate |-> r],
                             !.calls[i] = [@ EXCEPT !.pc = "read", !.fetched = TRUE,
                                                    !.got = r]]
    /\ UNCHANGED <<now, providers, users, payKey, extKey, charges, paid, cr, task,
                   grants, wasPaid, calc, upd, inv, st, fr, mt>>

\* the cached rate is read in a block of its own that takes the mutex, and
\* the amount is converted
QuoteRead(i) ==
    /\ quote.calls[i].pc = "read"
    /\ quote.lock = 0
    /\ quote' = [quote EXCEPT !.calls[i] =
                    [@ EXCEPT !.pc = "done", !.used = quote.cache.rate]]
    /\ UNCHANGED <<now, providers, users, payKey, extKey, charges, paid, cr, task,
                   grants, wasPaid, calc, upd, inv, st, fr, mt>>

\* create_lightning_payment, after a conversion that returned Ok:
\* provider.create_invoice
QuoteCreateInvoice(i) ==
    /\ quote.calls[i].pc = "done"
    /\ quote' = [quote EXCEPT !.calls[i] = [@ EXCEPT !.pc = "invoiced"]]
    /\ UNCHANGED <<now, providers, users, payKey, extKey, charges, paid, cr, task,
                   grants, wasPaid, calc, upd, inv, st, fr, mt>>

\* time passes between the steps of the conversions
QuoteTick ==
    /\ now + QuoteStep <= MaxQuoteTime
    /\ now' = now + QuoteStep
    /\ UNCHANGED <<providers, users, payKey, extKey, charges, paid, cr, task,
                   grants, wasPaid, calc, upd, quote, inv, st, fr, mt>>

NextQuote ==
    \/ \E i \in ConvIds : QuoteCheck(i)
    \/ \E i \in ConvIds : QuoteUnlock(i)
    \/ \E i \in ConvIds : QuoteFetch(i)
    \/ \E i \in ConvIds : QuoteRead(i)
    \/ \E i \in ConvIds : QuoteCreateInvoice(i)
    \/ QuoteTick

SpecQuote == InitQuote /\ [][NextQuote]_vars

\* ------------------------------- the amount of a Lightning invoice on its own
\* offer.amount is kept in hundredths of a USD (0.01 and 0.05 in the default
\* offers), a rate in whole sats per USD
CentsPerUsd == 100
CeilDiv(a, b) == (a + b - 1) \div b

\* utils::convert_usd_to_sats: (amount_usd * sats_per_usd).ceil() as u64
ConvertUsdToSats(cents, rate) == CeilDiv(cents * rate, CentsPerUsd)

\* LightningProvider::convert_usd_to_sats, private to create_invoice:
\* (amount_usd * SATS_PER_USD).ceil() as u64
ProviderConvertUsdToSats(cents) == CeilDiv(cents * SatsPerUsd, CentsPerUsd)

\* LightningProvider::create_invoice(amount_usd, ..): the amount it asks the
\* LNbits client for.  create_lightning_payment passes its amount_sats here.
InvoiceAmount(amount_usd) == ProviderConvertUsdToSats(amount_usd * CentsPerUsd)

InitInvoice ==
    /\ now = 0
    /\ providers = [lightning |-> TRUE, coinbase |-> TRUE, secret |-> TRUE]
    /\ users = [u \in UserIds |-> [exists |-> FALSE, credits |-> 0]]
    /\ payKey = [p \in PayIds |-> NoPayKey]
    /\ extKey = [e \in ExtIds |-> NoExtKey]
    /\ charges = [e \in ExtIds |-> "none"]
    /\ paid = {}
    /\ cr = [p \in PayIds |-> IdleCr]
    /\ task = [k \in TaskIds |-> IdleTask]
    /\ grants = [p \in PayIds |-> 0]
    /\ wasPaid = {}
    /\ calc = NoCalc
    /\ upd = NoUpd
    /\ quote = NoQuote
    /\ st = NoSt
    /\ fr = NoFr
    /\ mt = NoMt
    /\ inv \in [pc : {"convert"}, cents : {Offers[o].cents : o \in OfferIds},
                rate : 1..MaxRate, sats : {0}, invoice : {0}]

\* create_lightning_payment: utils::convert_usd_to_sats(offer.amount), which
\* fails when the ticker cannot be fetched
InvoiceConvert ==
    /\ inv.pc = "convert"
    /\ \E ok \in BOOLEAN :
         inv' = IF ok
                THEN [inv EXCEPT !.pc = "create",
                                 !.sats = ConvertUsdToSats(inv.cents, inv.rate)]
                ELSE [inv EXCEPT !.pc = "failed"]
    /\ UNCHANGED <<now, providers, users, payKey, extKey, charges, paid, cr, task,
                   grants, wasPaid, calc, upd, quote, st, fr, mt>>

\* create_lightning_payment: provider.create_invoice(amount_sats, ..)
InvoiceCreate ==
    /\ inv.pc = "create"
    /\ \E ok \in BOOLEAN :
         inv' = IF ok
                THEN [inv EXCEPT !.pc = "invoiced", !.invoice = InvoiceAmount(inv.sats)]
                ELSE [inv EXCEPT !.pc = "failed"]
    /\ UNCHANGED <<now, providers, users, payKey, extKey, charges, paid, cr, task,
                   grants, wasPaid, calc, upd, quote, st, fr, mt>>

NextInvoice == InvoiceConvert \/ InvoiceCreate

SpecInvoice == InitInvoice /\ [][NextInvoice]_vars

\* ------------------------------ RedisStorage's payment keys on their own
\* Several requests are created and settled as PaymentService does it; the
\* clock counts fractions of a second, since TTLs are truncated to seconds.
\* update_payment_request_status, which PaymentService never calls, is
\* callable as well.
StoredIds == 1..MaxStored
\* a key written by SET has no expiry
Never == -1
Readable(k, t) == k.dies = Never \/ t < k.dies

\* store_payment_request: (expiry - now).num_seconds() as u64, or 60
StoreTtl(expires_at, t) ==
    IF expires_at > t THEN (expires_at - t) \div SubSecond ELSE TtlFloorSeconds

\* Redis refuses SETEX with a TTL of 0 ("invalid expire time")
SetexAccepted(ttl) == ttl > 0

\* the payment hash or charge id the provider returns for request r: a new
\* one for every charge
NewExternalIdMut_Reused(r) == 1
NewExternalId(r) == r

IdleStored == [pc |-> "new", req |-> NoReq, ttl |-> 0]

InitStore ==
    /\ now = 0
    /\ providers = [lightning |-> TRUE, coinbase |-> TRUE, secret |-> TRUE]
    /\ users = [u \in UserIds |-> [exists |-> FALSE, credits |-> 0]]
    /\ payKey = [p \in PayIds |-> NoPayKey]
    /\ extKey = [e \in ExtIds |-> NoExtKey]
    /\ charges = [e \in ExtIds |-> "none"]
    /\ paid = {}
    /\ cr = [p \in PayIds |-> IdleCr]
    /\ task = [k \in TaskIds |-> IdleTask]
    /\ grants = [p \in PayIds |-> 0]
    /\ wasPaid = {}
    /\ calc = NoCalc
    /\ upd = NoUpd
    /\ quote = NoQuote
    /\ inv = NoInv
    /\ fr = NoFr
    /\ mt = NoMt
    /\ st = [now |-> 0,
             pay |-> [r \in StoredIds |-> NoPayKey],
             ext |-> [e \in StoredIds |-> NoExtKey],
             calls |-> [r \in StoredIds |-> IdleStored],
             last |-> NoCmd]

StoreOthersUnchanged ==
    UNCHANGED <<now, providers, users, payKey, extKey, charges, paid, cr, task,
                grants, wasPaid, calc, upd, quote, inv, fr, mt>>

\* get_payment_request_by_external_id on these keys
StoredLookup(e) ==
    IF ~Readable(st.ext[e], st.now) \/ st.ext[e].target = 0
    THEN [err |-> "NotFound", req |-> NoReq]
    ELSE IF ~Readable(st.pay[st.ext[e].target], st.now)
            \/ st.pay[st.ext[e].target].val = NoReq
         THEN [err |-> "NotFound", req |-> NoReq]
         ELSE [err |-> "none", req |-> st.pay[st.ext[e].target].val]

\* one SETEX of store_payment_request for the request of call r: the i-th of
\* StoreOrder, with the TTL in seconds; next and failed are where the call
\* goes on
StoredSetex(r, i, ttl, next, failed) ==
    LET req == st.calls[r].req
        s   == StoreStep(i, st.pay, st.ext, req, ttl * SubSecond, st.now)
        cmd == [op |-> "setex", ttl |-> ttl, left |-> req.expires_at - st.now]
    IN IF SetexAccepted(ttl)
       THEN st' = [st EXCEPT !.pay = s.payKey, !.ext = s.extKey, !.last = cmd,
                             !.calls[r] = [@ EXCEPT !.pc = next, !.ttl = ttl]]
       ELSE st' = [st EXCEPT !.last = cmd,
                             !.calls[r] = [@ EXCEPT !.pc = failed, !.ttl = ttl]]

\* process_payment_request: PaymentRequest::new
StoredCreate(r) ==
    /\ st.calls[r].pc = "new"
    /\ \A q \in StoredIds : q < r => st.calls[q].pc # "new"
    /\ st' = [st EXCEPT !.calls[r] =
                [@ EXCEPT !.pc = "persist1",
                          !.req = NewPaymentRequest(r, 1, "offer1", Offers["offer1"].credits,
                                     "lightning", st.now + ExpiryMinutes * 60 * SubSecond)]]
    /\ StoreOthersUnchanged

\* the first store_payment_request: the record alone
StoredPersist1(r) ==
    /\ st.calls[r].pc = "persist1"
    /\ StoredSetex(r, 1, StoreTtl(st.calls[r].req.expires_at, st.now),
                   "charge", "failed")
    /\ StoreOthersUnchanged

\* create_invoice / create_charge: the provider returns the id of the charge
StoredCharge(r) ==
    /\ st.calls[r].pc = "charge"
    /\ st' = [st EXCEPT !.calls[r] =
                [@ EXCEPT !.pc = "persist2", !.req.external_id = NewExternalId(r)]]
    /\ StoreOthersUnchanged

\* the second store_payment_request, with the external id: its two SETEX
StoredPersist2First(r) ==
    /\ st.calls[r].pc = "persist2"
    /\ StoredSetex(r, 1, StoreTtl(st.calls[r].req.expires_at, st.now),
                   "persist2_second", "failed")
    /\ StoreOthersUnchanged

StoredPersist2Second(r) ==
    /\ st.calls[r].pc = "persist2_second"
    /\ StoredSetex(r, 2, st.calls[r].ttl, "created", "failed")
    /\ StoreOthersUnchanged

\* a webhook or the poll task finds the request by its external id and
\* enters process_successful_payment
StoredLoad(r) ==
    /\ st.calls[r].pc = "created"
    /\ LET res == StoredLookup(st.calls[r].req.external_id)
       IN /\ res.err = "none"
          /\ SettleGuard(res.req)
          /\ st' = [st EXCEPT !.calls[r] =
                      [@ EXCEPT !.pc = "settle",
                                !.req = [res.req EXCEPT !.status = "Paid"]]]
    /\ StoreOthersUnchanged

\* process_successful_payment: store_payment_request of the Paid request; a
\* failure is returned to the webhook sender or makes the poll task retry
StoredSettleFirst(r) ==
    /\ st.calls[r].pc = "settle"
    /\ StoredSetex(r, 1, StoreTtl(st.calls[r].req.expires_at, st.now),
                   "settle_second", "created")
    /\ StoreOthersUnchanged

StoredSettleSecond(r) ==
    /\ st.calls[r].pc = "settle_second"
    /\ StoredSetex(r, 2, st.calls[r].ttl, "settled", "created")
    /\ StoreOthersUnchanged

\* update_payment_request_status: GET of the record, then SET
UpdatePaymentRequestStatus(r, status) ==
    /\ Readable(st.pay[r], st.now) /\ st.pay[r].val # NoReq
    /\ st.pay[r].dies # Never
    /\ st' = [st EXCEPT
                !.pay[r] = [val |-> [st.pay[r].val EXCEPT !.status = status],
                            dies |-> Never],
                !.last = [op |-> "set", ttl |-> 0,
                          left |-> st.pay[r].val.expires_at - st.now]]
    /\ StoreOthersUnchanged

\* the instants at which a comparison or a truncation changes its value
StoreDeadlines ==
    UNION {{st.calls[r].req.expires_at - 1, st.calls[r].req.expires_at,
            st.calls[r].req.expires_at + 1} :
             r \in {x \in StoredIds : st.calls[x].pc # "new"}}
    \cup {st.pay[r].dies : r \in StoredIds}
    \cup {st.ext[e].dies : e \in StoredIds}
    \cup {t \in {st.now + 1} : st.now < MaxStoreSkew}

\* time passes; Redis drops the keys whose TTL has run out
StoreTick ==
    /\ \E t \in StoreDeadlines :
         /\ t > st.now /\ t <= MaxStoreTime
         /\ st' = [st EXCEPT
               !.now = t,
               !.pay = [r \in StoredIds |->
                          IF Readable(st.pay[r], t) THEN st.pay[r] ELSE NoPayKey],
               !.ext = [e \in StoredIds |->
                          IF Readable(st.ext[e], t) THEN st.ext[e] ELSE NoExtKey]]
    /\ StoreOthersUnchanged

NextStore ==
    \/ \E r \in StoredIds : StoredCreate(r)
    \/ \E r \in StoredIds : StoredPersist1(r)
    \/ \E r \in StoredIds : StoredCharge(r)
    \/ \E r \in StoredIds : StoredPersist2First(r)
    \/ \E r \in StoredIds : StoredPersist2Second(r)
    \/ \E r \in StoredIds : StoredLoad(r)
    \/ \E r \in StoredIds : StoredSettleFirst(r)
    \/ \E r \in StoredIds : StoredSettleSecond(r)
    \/ \E r \in StoredIds, status \in {"Paid", "Expired"} :
         UpdatePaymentRequestStatus(r, status)
    \/ StoreTick

SpecStore == InitStore /\ [][NextStore]_vars

\* ------------------------- settlements among several users and requests
\* process_successful_payment with more than one user and PaymentRequest in
\* the store: fr = [now, users, payKey, extKey, task], the keys as in the
\* program (every key lives to the expiry of its request, which no step here
\* reaches)
MaxFrameUsers == 2
MaxFramePays  == 2
MaxFrameJobs  == 2
FrameUsers == 1..MaxFrameUsers
FramePays  == 1..MaxFramePays
FrameJobs  == 1..MaxFrameJobs

\* the key of a user record: format!("{}{}", USER_KEY_PREFIX, user_id)
UserKeyMut_Shared(user_id) == 1
UserKey(user_id) == user_id

\* the other variables are not used
FrameOthersUnchanged ==
    UNCHANGED <<now, providers, users, payKey, extKey, charges, paid, cr, task,
                grants, wasPaid, calc, upd, quote, inv, st, mt>>

\* the users have signed up and every request was created at instant 0, for
\* any user and any offer, and charged at the provider
InitFrame ==
    /\ now = 0
    /\ providers = [lightning |-> TRUE, coinbase |-> TRUE, secret |-> TRUE]
    /\ users = [u \in UserIds |-> [exists |-> FALSE, credits |-> 0]]
    /\ payKey = [p \in PayIds |-> NoPayKey]
    /\ extKey = [e \in ExtIds |-> NoExtKey]
    /\ charges = [e \in ExtIds |-> "none"]
    /\ paid = {}
    /\ cr = [p \in PayIds |-> IdleCr]
    /\ task = [k \in TaskIds |-> IdleTask]
    /\ grants = [p \in PayIds |-> 0]
    /\ wasPaid = {}
    /\ calc = NoCalc
    /\ upd = NoUpd
    /\ quote = NoQuote
    /\ inv = NoInv
    /\ st = NoSt
    /\ mt = NoMt
    /\ \E owner \in [FramePays -> FrameUsers], offer \in [FramePays -> OfferIds] :
         fr = [now    |-> 0,
               users  |-> [u \in FrameUsers |->
                             [exists |-> TRUE, credits |-> SignupCredits]],
               payKey |-> [p \in FramePays |->
                             LET req == [NewPaymentRequest(p, owner[p], offer[p],
                                            Offers[offer[p]].credits, "coinbase",
                                            ExpiryMinutes * 60)
                                         EXCEPT !.external_id = p]
                             IN [val |-> req, dies |-> Ttl(req, 0)]],
               extKey |-> [e \in FramePays |->
                             [target |-> e, dies |-> ExpiryMinutes * 60]],
               task   |-> [j \in FrameJobs |-> IdleTask]]

\* process_coinbase_webhook: a confirmed event for the charge e is received,
\* the request is looked up by external id and the settlement entered
FrameReceive(j, e) ==
    /\ fr.task[j].pc = "idle"
    /\ LET t   == [IdleTask EXCEPT !.kind = "coinbase", !.sig = "hmac", !.hash = e]
           res == [err |-> "none", req |-> fr.payKey[fr.extKey[e].target].val]
           gate == WebhookGate(res, fr.now)
       IN fr' = [fr EXCEPT !.task[j] =
                    IF gate # "proceed" THEN Finish(t, "OkNone", gate)
                    ELSE EnterSettle(t, res.req)]
    /\ FrameOthersUnchanged

\* store_payment_request of the settled request: its first SETEX
FrameStoreFirst(j) ==
    /\ fr.task[j].pc = "store_first"
    /\ \E ok \in BOOLEAN :
         IF ok
         THEN LET ttl == Ttl(fr.task[j].req, fr.now)
                  s1  == StoreStep(1, fr.payKey, fr.extKey, fr.task[j].req, ttl, fr.now)
              IN fr' = [fr EXCEPT !.payKey = s1.payKey, !.extKey = s1.extKey,
                                  !.task[j] = [fr.task[j] EXCEPT !.pc = "store_second",
                                                                 !.ttl = ttl]]
         ELSE fr' = [fr EXCEPT !.task[j] = OnSettleError(fr.task[j])]
    /\ FrameOthersUnchanged

\* store_payment_request of the settled request: its second SETEX
FrameStoreSecond(j) ==
    /\ fr.task[j].pc = "store_second"
    /\ \E ok \in BOOLEAN :
         IF ok
         THEN LET s2 == StoreStep(2, fr.payKey, fr.extKey, fr.task[j].req,
                                  fr.task[j].ttl, fr.now)
              IN fr' = [fr EXCEPT !.payKey = s2.payKey, !.extKey = s2.extKey,
                                  !.task[j] = [fr.task[j] EXCEPT !.pc = "credit_get"]]
         ELSE fr' = [fr EXCEPT !.task[j] = OnSettleError(fr.task[j])]
    /\ FrameOthersUnchanged

\* update_user_credits: GET of the user record
FrameCreditGet(j) ==
    /\ fr.task[j].pc = "credit_get"
    /\ \E ok \in BOOLEAN :
         LET key == UserKey(fr.task[j].req.user_id)
         IN IF ok /\ key \in DOMAIN fr.users /\ fr.users[key].exists
            THEN fr' = [fr EXCEPT !.task[j] =
                           [fr.task[j] EXCEPT !.pc = "credit_set",
                                              !.ucred = fr.users[key].credits]]
            ELSE fr' = [fr EXCEPT !.task[j] = OnSettleError(fr.task[j])]
    /\ FrameOthersUnchanged

\* update_user_credits: the new balance and the SET of the user record
FrameCreditSet(j) ==
    /\ fr.task[j].pc = "credit_set"
    /\ \E ok \in BOOLEAN :
       \E out \in ApplyDelta(ToWord(fr.task[j].ucred), CreditDelta(fr.task[j].req)) :
         LET key == UserKey(fr.task[j].req.user_id)
         IN IF out.panic
            THEN fr' = [fr EXCEPT !.task[j] = Finish(fr.task[j], "Panic", "panic")]
            ELSE IF ok
                 THEN fr' = [fr EXCEPT !.users[key].credits = WordVal(out.credits),
                                       !.task[j] = OnSettleOk(fr.task[j], "settled")]
                 ELSE fr' = [fr EXCEPT !.task[j] = OnSettleError(fr.task[j])]
    /\ FrameOthersUnchanged

NextFrame ==
    \/ \E j \in FrameJobs, e \in FramePays : FrameReceive(j, e)
    \/ \E j \in FrameJobs : FrameStoreFirst(j)
    \/ \E j \in FrameJobs : FrameStoreSecond(j)
    \/ \E j \in FrameJobs : FrameCreditGet(j)
    \/ \E j \in FrameJobs : FrameCreditSet(j)

SpecFrame == InitFrame /\ [][NextFrame]_vars

\* ------------------------------- get_latest_block, requests of one user
\* mt = [start: the credits held at the start, credits: user.credits in the
\* store, calls]; no purchase is settled meanwhile
MaxMeterCalls   == 2
MaxMeterCredits == 2
MeterIds == 1..MaxMeterCalls
\* seen: user.credits as get_user returned it; read: as update_user_credits
\* read it; status: the status code of the answer; charged:
\* update_user_credits returned Ok
IdleMeter == [pc |-> "idle", seen |-> ToWord(0), read |-> ToWord(0),
              status |-> 0, charged |-> FALSE]

\* the delta get_latest_block passes to update_user_credits
MeterDelta == I32(-1)

\* the answer is sent
Answer(c, status) == [c EXCEPT !.pc = "done", !.status = status]

MeterOthersUnchanged ==
    UNCHANGED <<now, providers, users, payKey, extKey, charges, paid, cr, task,
                grants, wasPaid, calc, upd, quote, inv, st, fr>>

InitMeter ==
    /\ now = 0
    /\ providers = [lightning |-> TRUE, coinbase |-> TRUE, secret |-> TRUE]
    /\ users = [u \in UserIds |-> [exists |-> FALSE, credits |-> 0]]
    /\ payKey = [p \in PayIds |-> NoPayKey]
    /\ extKey = [e \in ExtIds |-> NoExtKey]
    /\ charges = [e \in ExtIds |-> "none"]
    /\ paid = {}
    /\ cr = [p \in PayIds |-> IdleCr]
    /\ task = [k \in TaskIds |-> IdleTask]
    /\ grants = [p \in PayIds |-> 0]
    /\ wasPaid = {}
    /\ calc = NoCalc
    /\ upd = NoUpd
    /\ quote = NoQuote
    /\ inv = NoInv
    /\ st = NoSt
    /\ fr = NoFr
    /\ \E c \in 0..MaxMeterCredits :
         mt = [start |-> ToWord(c), credits |-> ToWord(c),
               calls |-> [i \in MeterIds |-> IdleMeter]]

\* get_user and the check user.credits < 1.  a: what happens to get_user
\* (a failed GET is turned into UserNotFound, a missing connection is not)
MeterGetUser(i, a) ==
    /\ mt.calls[i].pc = "idle"
    /\ mt' = [mt EXCEPT !.calls[i] =
                IF a = "get_failed" THEN Answer(@, 401)
                ELSE IF a = "no_connection" THEN Answer(@, 500)
                ELSE IF LessU32(mt.credits, ToWord(1))
                     THEN Answer([@ EXCEPT !.seen = mt.credits], 402)
                     ELSE [@ EXCEPT !.pc = "fetch", !.seen = mt.credits]]
    /\ MeterOthersUnchanged

\* block_service.get_latest_block()
MeterFetch(i) ==
    /\ mt.calls[i].pc = "fetch"
    /\ \E ok \in BOOLEAN :
         mt' = [mt EXCEPT !.calls[i] =
                  IF ok THEN [@ EXCEPT !.pc = "deduct_get"] ELSE Answer(@, 503)]
    /\ MeterOthersUnchanged

\* update_user_credits(&user_id, -1): GET of the user record; when it fails
\* the data is returned all the same
MeterDeductGet(i) ==
    /\ mt.calls[i].pc = "deduct_get"
    /\ \E ok \in BOOLEAN :
         mt' = [mt EXCEPT !.calls[i] =
                  IF ok THEN [@ EXCEPT !.pc = "deduct_set", !.read = mt.credits]
                  ELSE Answer(@, 200)]
    /\ MeterOthersUnchanged

\* update_user_credits(&user_id, -1): the new balance and its SET; the data
\* is returned whether the SET succeeded or not
MeterDeductSet(i) ==
    /\ mt.calls[i].pc = "deduct_set"
    /\ \E ok \in BOOLEAN :
       \E out \in ApplyDelta(mt.calls[i].read, MeterDelta) :
         mt' = IF ok /\ ~out.panic
               THEN [mt EXCEPT !.credits = out.credits,
                               !.calls[i] = Answer([@ EXCEPT !.charged = TRUE], 200)]
               ELSE [mt EXCEPT !.calls[i] = Answer(@, 200)]
    /\ MeterOthersUnchanged

NextMeter ==
    \/ \E i \in MeterIds, a \in LookupAnswers : MeterGetUser(i, a)
    \/ \E i \in MeterIds : MeterFetch(i)
    \/ \E i \in MeterIds : MeterDeductGet(i)
    \/ \E i \in MeterIds : MeterDeductSet(i)

SpecMeter == InitMeter /\ [][NextMeter]_vars

\* ------------------------------------------------------------------ claims
RECURSIVE BoughtUpTo(_, _)
\* the credits of the requests 1..n created for user u
BoughtUpTo(u, n) ==
    IF n = 0 THEN 0
    ELSE BoughtUpTo(u, n - 1)
         + (IF cr[n].req.user_id = u THEN cr[n].req.credits ELSE 0)

\* a webhook request was handled up to its first await or its answer
Received(w) == task[w].pc \in {"idle", "done"} /\ task'[w] # task[w]
\* the answer is not about the provider being absent, the body or the store
Processed(t) ==
    t.exit \notin {"no_provider", "no_secret", "bad_signature", "bad_request",
                   "storage_error"}
StoreUnchanged == users' = users /\ payKey' = payKey /\ extKey' = extKey

\* C1: however a webhook and the poll task interleave on one PaymentRequest,
\* the user is credited for it once: a balance never exceeds the signup
\* credit plus the credits of the requests created for the user.
C1_GrantedOnce ==
    \A u \in UserIds :
        users[u].exists => users[u].credits <= SignupCredits + BoughtUpTo(u, MaxPayments)

\* C2: once every handler and poll task has returned, a request stored as
\* Paid has had its credits granted.
C2_PaidImpliesCredited ==
    \A p \in PayIds :
        (p \in wasPaid /\ \A k \in TaskIds : task[k].pc \in {"idle", "done"})
            => grants[p] >= 1

\* C3: Paid is terminal: a payment record that was once stored as Paid never
\* holds another status afterwards.
C3_PaidIsTerminal ==
    \A p \in wasPaid : payKey[p] = NoPayKey \/ payKey[p].val.status = "Paid"
\* a request was written again after its settlement had completed
C3_Witness ==
    \E p \in PayIds, k \in TaskIds :
        /\ grants[p] >= 1 /\ payKey[p].val.status = "Paid"
        /\ task[k].pc = "store_second" /\ task[k].req.id = p

\* C4: a webhook naming a request that is already Paid is answered 200 with
\* Ok(None) and changes neither a user nor a payment record nor the index.
C4_SecondNotificationNoop ==
    [][\A w \in WebhookIds :
         (/\ Received(w) /\ Processed(task'[w])
          /\ Lookup(task'[w].hash, now).req.status = "Paid")
         => (/\ task'[w].pc = "done" /\ task'[w].result = "OkNone"
             /\ HttpStatus(task'[w].result) = 200
             /\ StoreUnchanged /\ grants' = grants)]_vars
C4_Witness ==
    \E w \in WebhookIds :
        /\ task[w].pc = "done" /\ task[w].exit = "already_paid"
        /\ Lookup(task[w].hash, now).req.status = "Paid"
        /\ \E p \in PayIds : Lookup(task[w].hash, now).req.id = p /\ grants[p] = 1

\* C5: a user has SignupCredits after signup, and after one settlement of a
\* purchase the balance is that plus the credits of the offer, the request
\* having been stored as Paid.
C5_EndToEnd ==
    \A u \in UserIds : users[u].exists =>
        /\ (\A p \in PayIds : cr[p].req.user_id = u => grants[p] = 0)
              => users[u].credits = SignupCredits
        /\ \A p \in PayIds :
              (/\ cr[p].req.user_id = u /\ grants[p] = 1
               /\ \A q \in PayIds \ {p} : cr[q].req.user_id = u => grants[q] = 0)
              => /\ users[u].credits = SignupCredits + Offers[cr[p].req.offer_id].credits
                 /\ p \in wasPaid
                 /\ (payKey[p] = NoPayKey \/ payKey[p].val.status = "Paid")
C5_Witness ==
    \E p \in PayIds :
        /\ cr[p].req.offer_id = "offer1" /\ cr[p].req.method = "lightning"
        /\ grants[p] = 1 /\ payKey[p].val.status = "Paid"
        /\ users[cr[p].req.user_id].credits = 2

\* the lookup by the external id of request p, made as process_payment_request
\* returns Ok, finds the Pending record of the offer purchased
FoundAsCreated(p) ==
    LET r == LookupIn(payKey', extKey', cr'[p].req.external_id, now')
    IN /\ r.err = "none" /\ r.req.id = p /\ r.req.status = "Pending"
       /\ r.req.offer_id = cr[p].req.offer_id
       /\ r.req.credits = Offers[cr[p].req.offer_id].credits

C7_UnknownIdNoop ==
    [][\A w \in WebhookIds :
         (/\ Received(w) /\ Processed(task'[w])
          /\ (task'[w].hash \notin ExtIds \/ ~Alive(extKey[task'[w].hash], now)))
         => (/\ task'[w].pc = "done" /\ task'[w].result = "OkNone"
             /\ HttpStatus(task'[w].result) = 200
             /\ StoreUnchanged /\ grants' = grants)]_vars
C7_Witness ==
    \E w \in WebhookIds :
        /\ task[w].pc = "done" /\ task[w].exit = "not_found"
        /\ task[w].result = "OkNone" /\ task[w].hash \notin ExtIds
        /\ \E p \in PayIds : payKey[p] # NoPayKey

\* C8: a webhook handled after expires_at of its Pending request returns
\* Ok(None) and changes nothing, whatever the provider reports.
C8_ExpiredIgnored ==
    [][\A w \in WebhookIds :
         (/\ Received(w) /\ Processed(task'[w])
          /\ Lookup(task'[w].hash, now).err = "none"
          /\ Lookup(task'[w].hash, now).req.status = "Pending"
          /\ now > Lookup(task'[w].hash, now).req.expires_at)
         => (/\ task'[w].pc = "done" /\ task'[w].result = "OkNone"
             /\ StoreUnchanged /\ grants' = grants)]_vars
C8_Witness ==
    \E w \in WebhookIds :
        /\ task[w].pc = "done" /\ task[w].exit = "expired"
        /\ task[w].hash \in paid
        /\ Lookup(task[w].hash, now).req.status = "Pending"
        /\ now > Lookup(task[w].hash, now).req.expires_at

\* C9: the poll task never enters the settlement of a request with effect
\* later than the request's expires_at.
C9_PollSettlesUnexpired ==
    [][\A k \in PollIds :
         (task[k].pc = "load" /\ task'[k].pc = "store_first")
         => now <= task'[k].req.expires_at]_vars

\* C10: for a negative delta -N, update_user_credits does not fail and stores
\* max(0, credits - N): 0 when N exceeds the balance, else the balance b with
\* b + N = credits.
C10_ClampsAtZero ==
    (calc.out # {} /\ IsNegative(calc.delta)) =>
        \A o \in calc.out :
            /\ ~o.panic
            /\ IF LessU32(calc.credits, UnsignedAbs(calc.delta))
               THEN o.credits = ToWord(0)
               ELSE AddU32(o.credits, UnsignedAbs(calc.delta))
                      = [sum |-> calc.credits, overflow |-> FALSE]
C10_Witness ==
    /\ calc.out = {[panic |-> FALSE, credits |-> ToWord(0)]}
    /\ calc.credits = ToWord(5) /\ calc.delta = I32(-6)

RECURSIVE SequentialResults(_, _)
\* the balances that applying the deltas of the calls I to c, one call after
\* the other in some order, can leave
SequentialResults(c, I) ==
    IF I = {} THEN {c}
    ELSE UNION {UNION {SequentialResults(o.credits, I \ {i}) :
                         o \in {x \in ApplyDelta(c, upd.calls[i].delta) : ~x.panic}} :
                  i \in I}

\* C11: when concurrent calls of update_user_credits on one user have
\* returned, the stored balance is what applying the deltas of the successful
\* calls one after the other leaves: no update is lost.
C11_NoLostUpdate ==
    (upd.calls # <<>> /\ \A i \in CallIds : upd.calls[i].pc \in {"done", "failed"})
        => upd.stored \in SequentialResults(upd.initial,
                              {i \in CallIds : upd.calls[i].pc = "done"})

\* C12: a webhook entry point answers 200 or 400 and nothing else, and 200
\* when the request named is already Paid, expired or unknown, or when the
\* charge is not settled yet.
C12_NeverServerError ==
    [][\A w \in WebhookIds :
         (task'[w] # task[w] /\ task'[w].pc = "done")
         => LET code == HttpStatus(task'[w].result)
                res  == Lookup(task'[w].hash, now)
            IN /\ code \in {200, 400}
               /\ (/\ Received(w) /\ Processed(task'[w])
                   /\ \/ res.err = "NotFound"
                      \/ res.req.status = "Paid"
                      \/ now > res.req.expires_at) => code = 200
               /\ task'[w].exit \in {"not_settled", "not_completed"} => code = 200]_vars
C12_Witness ==
    \E w \in WebhookIds :
        /\ task[w].pc = "done" /\ task[w].exit = "not_settled"
        /\ HttpStatus(task[w].result) = 200
        /\ Lookup(task[w].hash, now).req.status = "Pending"

\* C13: a webhook entry point answers 400 only to a request that is malformed
\* or not authenticated, never because of what happened while processing it.
C13_BadRequestOnlyForBadInput ==
    \A w \in WebhookIds :
        (task[w].pc = "done" /\ HttpStatus(task[w].result) = 400)
            => task[w].exit \in {"bad_request", "bad_signature", "no_secret",
                                 "no_provider"}

\* C14: two conversions that began within the refresh interval of each other
\* used the same rate, and at most one of them fetched the ticker.
C14_SingleRefresh ==
    \A i, j \in ConvIds :
        (/\ quote.calls # <<>> /\ i # j
         /\ quote.calls[i].pc = "done" /\ quote.calls[j].pc = "done"
         /\ quote.calls[i].began - quote.calls[j].began <= CacheSeconds
         /\ quote.calls[j].began - quote.calls[i].began <= CacheSeconds)
        => /\ quote.calls[i].used = quote.calls[j].used
           /\ ~(quote.calls[i].fetched /\ quote.calls[j].fetched)

\* C15: when process_payment_request fails with InvalidPaymentMethod, no
\* record of the request is in the store.
C15_ValidatedBeforePersist ==
    [][\A p \in PayIds :
         (cr[p].pc # "failed" /\ cr'[p].pc = "failed"
          /\ cr'[p].result = "InvalidPaymentMethod")
         => payKey'[p] = NoPayKey]_vars

\* C16: process_payment_request writes a payment record and creates a
\* provider charge only for a payment_context_token naming an existing user.
C16_UnknownUserRejected ==
    [][\A p \in PayIds :
         (/\ cr'[p] # cr[p]
          /\ \/ payKey'[p] # payKey[p]
             \/ charges' # charges)
         => users[cr'[p].req.user_id].exists]_vars

\* C17: a Lightning webhook is inside process_successful_payment, where the
\* credits are granted, only after check_invoice answered true while that
\* webhook was processed.
C17_GrantOnlyAfterCheck ==
    \A w \in WebhookIds :
        (/\ task[w].kind = "lightning"
         /\ task[w].pc \in {"store_first", "store_second", "credit_get", "credit_set"})
        => task[w].check = "true"
C17_Witness ==
    \E w \in WebhookIds :
        /\ task[w].kind = "lightning" /\ task[w].pc = "credit_set"
        /\ task[w].check = "true" /\ task[w].hash \in paid

\* C18: a Lightning webhook whose payload says payment_status = true, for a
\* Pending request that has not expired, is not answered with the failure of
\* check_invoice: the payload is trusted instead.
C18_FallsBackToFlag ==
    [][\A w \in WebhookIds :
         (/\ task[w].kind = "lightning" /\ task[w].pc = "verify" /\ task[w].flag
          /\ task[w].req.status = "Pending" /\ now <= task[w].req.expires_at
          /\ task'[w] # task[w])
         => task'[w].exit # "provider_error"]_vars

\* C19: a Coinbase webhook whose signature header is empty or is not the HMAC
\* of the body, or that arrives when no webhook secret is configured, is
\* answered 400 without any access to the store and changes nothing.
C19_BadSignatureRejected ==
    [][\A w \in WebhookIds :
         (/\ Received(w)
          /\ \/ task'[w].sig \in {"empty", "mismatch"}
             \/ task'[w].sig = "hmac" /\ ~providers.secret)
         => (/\ task'[w].pc = "done" /\ task'[w].result = "Err"
             /\ HttpStatus(task'[w].result) = 400
             /\ task'[w].exit \in {"no_provider", "no_secret", "bad_signature"}
             /\ StoreUnchanged /\ grants' = grants)]_vars
C19_Witness ==
    \E w \in WebhookIds :
        /\ task[w].pc = "done" /\ task[w].sig = "empty"
        /\ task[w].exit = "bad_signature" /\ providers.secret
        /\ \E e \in paid : charges[e] = "coinbase"
                           /\ Lookup(e, now).req.status = "Pending"

\* C20: every poll task that was spawned eventually terminates, whatever the
\* provider and the store answer.
C20_PollTerminates ==
    \A k \in PollIds :
        (task[k].kind = "poll" /\ task[k].pc = "start") ~> (task[k].pc = "done")
\* a poll task that ran into its timeout while the invoice stayed unpaid
C20_Witness ==
    \E k \in PollIds :
        /\ task[k].pc = "done" /\ task[k].exit = "timeout"
        /\ task[k].hash \notin paid /\ now > PollTimeoutMinutes * 60

\* C21: the amount asked of the Lightning backend for an offer is
\* ceil(offer.amount x cached rate): the conversion is applied once, and the
\* amount is not below offer.amount x rate.
C21_ConvertedOnce ==
    inv.pc = "invoiced"
        => /\ inv.invoice = CeilDiv(inv.cents * inv.rate, CentsPerUsd)
           /\ inv.invoice * CentsPerUsd >= inv.cents * inv.rate

C23_TtlPositive ==
    st.last.op = "setex"
        => /\ st.last.ttl > 0
           /\ st.last.ttl = IF st.last.left > 0 THEN st.last.left \div SubSecond
                            ELSE TtlFloorSeconds

\* C24: no operation leaves a payment record in the store without an expiry.
C24_RecordsExpire ==
    st.calls # <<>>
        => \A r \in StoredIds : st.pay[r].val # NoReq => st.pay[r].dies # Never

\* C25: process_successful_payment entered with a request that is not
\* Pending writes nothing and returns Ok (the poll task that loads a request
\* already Paid ends with Ok, unless its lookup failed, and nothing is
\* written); otherwise the Paid status is persisted before the credits are
\* added, so no credit is granted for a request that was never stored as Paid.
C25_GuardThenPaidThenCredit ==
    [][/\ \A k \in PollIds :
            (/\ task[k].pc = "load" /\ task'[k] # task[k]
             /\ Lookup(task[k].hash, now).err = "none"
             /\ Lookup(task[k].hash, now).req.status # "Pending")
            => /\ \/ task'[k].pc = "check"
                  \/ /\ task'[k].pc = "done" /\ task'[k].result = "Ok"
                     /\ task'[k].exit \in {"noop", "not_found"}
               /\ StoreUnchanged /\ grants' = grants
       /\ \A p \in PayIds : grants'[p] > grants[p] => p \in wasPaid
       /\ \A k \in TaskIds :
            task'[k].pc \in {"credit_get", "credit_set"} => task'[k].req.id \in wasPaid']_vars
\* the poll task found the request already settled by a webhook and left it
C25_Witness ==
    \E k \in PollIds :
        /\ task[k].pc = "done" /\ task[k].exit = "noop"
        /\ grants[k] = 1 /\ k \in wasPaid
        /\ Lookup(task[k].hash, now).req.status = "Paid"

\* C26: a poll task is spawned in the step in which a Lightning creation
\* returns Ok, after the record and the index entry with the external id
\* were written, and the caller returns while the task has yet to run; no
\* other step spawns one, so none exists for Coinbase or a failed creation.
C26_PollSpawnedOncePerLightning ==
    [][\A p \in PayIds :
         /\ (task[p].kind # "poll" /\ task'[p].kind = "poll")
            => /\ cr[p].pc # "done" /\ cr'[p].pc = "done" /\ cr'[p].result = "Ok"
               /\ cr'[p].req.method = "lightning"
               /\ task'[p].pc = "start"
               /\ task'[p].hash = cr'[p].req.external_id
               /\ extKey'[task'[p].hash].target = p
               /\ payKey'[p] = NoPayKey \/ payKey'[p].val.external_id = task'[p].hash
         /\ (cr[p].pc # "done" /\ cr'[p].pc = "done")
            => IF cr'[p].req.method = "lightning"
               THEN task'[p].kind = "poll" /\ task'[p].pc = "start"
               ELSE task'[p] = task[p] /\ task'[p].kind = "none"
         /\ (cr[p].pc # "failed" /\ cr'[p].pc = "failed") => task'[p] = task[p]]_vars
\* the Lightning creation has returned and its poll task has not run yet
C26_Witness ==
    \E p \in PayIds :
        /\ cr[p].pc = "done" /\ cr[p].req.method = "lightning"
        /\ task[p].kind = "poll" /\ task[p].pc = "start"
        /\ Lookup(task[p].hash, now).req.id = p

\* C27: a poll task ends only when the request is settled, when it is not in
\* the store, or at the timeout, and it ends with Ok: an error of
\* check_invoice, a failure of the store other than not-found and a failed
\* settlement make it poll again.
C27_PollRetriesOnError ==
    [][\A k \in PollIds :
         (task[k].kind = "poll" /\ task[k].pc # "done" /\ task'[k].pc = "done")
         => /\ task'[k].result = "Ok"
            /\ task'[k].exit \in {"settled", "noop", "not_found", "timeout"}
            /\ task'[k].exit = "not_found" => Lookup(task[k].hash, now).err = "NotFound"]_vars

\* C28: a correctly signed Coinbase webhook for a Pending, unexpired request
\* enters the settlement only with event type "charge:confirmed" and status
\* "CONFIRMED"; with any other event it returns Ok(None) and changes nothing.
C28_OnlyConfirmedSettles ==
    [][\A w \in WebhookIds :
         (/\ Received(w) /\ task'[w].sig = "hmac"
          /\ providers.coinbase /\ providers.secret
          /\ Lookup(task'[w].hash, now).err = "none"
          /\ Lookup(task'[w].hash, now).req.status = "Pending"
          /\ now <= Lookup(task'[w].hash, now).req.expires_at)
         => \A evtype \in {"charge:confirmed", "charge:failed"},
               status \in {"CONFIRMED", "PENDING"} :
              ReceiveCoinbaseWebhook(w, "hmac", TRUE, task'[w].hash, evtype, status,
                                     "answered")
              => IF evtype = "charge:confirmed" /\ status = "CONFIRMED"
                 THEN task'[w].pc = "store_first"
                 ELSE /\ task'[w].pc = "done" /\ task'[w].result = "OkNone"
                      /\ task'[w].exit = "not_completed"
                      /\ StoreUnchanged /\ grants' = grants /\ wasPaid' = wasPaid]_vars
\* an event that is not a confirmation was received for a request that is
\* paid at the provider and still Pending, and left it Pending
C28_Witness ==
    \E w \in WebhookIds :
        /\ task[w].pc = "done" /\ task[w].sig = "hmac"
        /\ task[w].exit = "not_completed"
        /\ task[w].hash \in paid
        /\ Lookup(task[w].hash, now).req.status = "Pending"
        /\ \A p \in PayIds : grants[p] = 0

\* C29: a Lightning webhook whose payload says payment_status = false grants
\* no credits, whatever check_invoice answers.
C29_FlagFalseNoGrant ==
    [][\A w \in WebhookIds :
         (task[w].kind = "lightning" /\ ~task[w].flag /\ task'[w] # task[w])
         => grants' = grants]_vars

\* C30: a conversion waiting for the answer of the ticker does not hold the
\* lock of the price cache, and whoever holds it is inside the block that
\* computes needs_update, which has no await: other conversions can read.
C30_NoLockAcrossFetch ==
    \A i \in ConvIds :
        (quote.calls # <<>> /\ quote.calls[i].pc = "fetch")
            => /\ quote.lock # i
               /\ quote.lock # 0 => quote.calls[quote.lock].pc = "checked"
\* a conversion that began after another one went to the ticker has read the
\* cache and returned while the other one is still waiting
C30_Witness ==
    /\ quote.calls # <<>>
    /\ \E i, j \in ConvIds :
          /\ quote.calls[i].pc = "fetch" /\ quote.calls[j].pc = "done"
          /\ quote.calls[j].began > quote.calls[i].began
          /\ quote.lock = 0

\* C31: a conversion whose fetch of the ticker failed returns the error: it
\* reads no rate from the cache, no invoice follows, and the step in which
\* the fetch fails leaves the cache as it was.
C31_NoStaleFallback ==
    [][\A i \in ConvIds :
         /\ (quote'.calls[i].fetched /\ quote'.calls[i].got = 0)
            => /\ quote'.calls[i].pc = "failed"
               /\ quote'.calls[i].used = 0
         /\ (quote.calls[i].pc = "fetch" /\ quote'.calls[i].pc # "fetch"
             /\ quote'.calls[i].got = 0)
            => quote'.cache = quote.cache]_vars
\* a call has failed although the cache held a rate, older than the refresh
\* interval
C31_Witness ==
    /\ quote.calls # <<>>
    /\ \E i \in ConvIds :
          /\ quote.calls[i].pc = "failed" /\ quote.calls[i].fetched
          /\ quote.cache.rate # 0
          /\ NeedsUpdate(quote.cache, quote.calls[i].began)

\* C32: a failed purchase creation is answered 400 or 401 with one of four
\* fixed messages, whatever the text of the error is, and a creation that
\* fails on an unknown offer_id has written nothing to the store and has
\* called no provider.
C32_GenericClientError ==
    [][\A p \in PayIds :
         (cr[p].pc # "failed" /\ cr'[p].pc = "failed")
         => /\ \A text \in ErrorTexts(cr'[p].result) :
                 /\ ErrorStatus(ErrorMessage(text)) \in {400, 401}
                 /\ ErrorMessage(text) \in
                      {"Invalid offer ID", "Invalid payment method",
                       "Invalid user token", "Failed to process payment request"}
            /\ cr'[p].result = "InvalidOffer"
               => /\ cr[p].pc = "idle"
                  /\ StoreUnchanged /\ charges' = charges
                  /\ payKey'[p] = NoPayKey /\ cr'[p].req = NoReq]_vars
\* a creation has failed in the provider call, after its record was written
C32_Witness ==
    \E p \in PayIds :
        /\ cr[p].pc = "failed" /\ cr[p].result = "ProviderError"
        /\ payKey[p].val.id = p

\* C33: each provider is present or absent on its own.  A creation that
\* reaches the provider lookup, and a webhook, fail with InvalidPaymentMethod
\* exactly when the provider of their own method is absent, whatever the
\* other provider is; they change nothing in the store beyond the Pending
\* record of the creation and call no provider.  (A Coinbase webhook carries
\* a signature header, a Lightning webhook none.)
C33_ProvidersIndependent ==
    [][/\ \A p \in PayIds :
            (cr[p].pc = "persist1" /\ cr'[p].pc # "persist1" /\ payKey'[p] # payKey[p])
            => /\ (cr'[p].result = "InvalidPaymentMethod")
                     = ~providers[cr[p].req.method]
               /\ ~providers[cr[p].req.method]
                  => cr'[p].pc = "failed" /\ charges' = charges
               /\ providers[cr[p].req.method] => cr'[p].pc \in {"convert", "charge"}
       /\ \A w \in WebhookIds :
            Received(w)
            => LET method == IF task'[w].sig = "none" THEN "lightning"
                             ELSE "coinbase"
               IN /\ (task'[w].exit = "no_provider") = ~providers[method]
                  /\ ~providers[method]
                     => /\ task'[w].pc = "done" /\ task'[w].result = "Err"
                        /\ StoreUnchanged /\ grants' = grants]_vars
\* the Lightning provider is absent and a Lightning webhook was refused,
\* while a creation with the Coinbase provider succeeded
C33_Witness ==
    /\ ~providers.lightning /\ providers.coinbase
    /\ \E w \in WebhookIds :
          /\ task[w].pc = "done" /\ task[w].exit = "no_provider"
    /\ \E p \in PayIds :
          /\ cr[p].pc = "done" /\ cr[p].result = "Ok"
          /\ cr[p].req.method = "coinbase"

\* C34: a step of the settlement of request P leaves every payment record
\* but P's, every index entry but P's (whose target it keeps) and every user
\* record but that of P.user_id as they were.
C34_SettlementFrame ==
    [][\A j \in FrameJobs :
         (/\ fr.task[j].pc \in {"store_first", "store_second", "credit_get",
                                "credit_set"}
          /\ fr'.task[j] # fr.task[j])
         => LET P == fr.task[j].req
            IN /\ \A q \in FramePays \ {P.id} : fr'.payKey[q] = fr.payKey[q]
               /\ \A e \in FramePays \ {P.external_id} : fr'.extKey[e] = fr.extKey[e]
               /\ fr'.extKey[P.external_id].target = fr.extKey[P.external_id].target
               /\ \A u \in FrameUsers \ {P.user_id} : fr'.users[u] = fr.users[u]
               /\ \A i \in FrameJobs \ {j} : fr'.task[i] = fr.task[i]]_vars
\* a request was settled and its user credited while a request of another
\* user is Pending and that user has the signup credit
C34_Witness ==
    /\ fr.task # <<>>
    /\ \E j \in FrameJobs, p, q \in FramePays :
          /\ fr.task[j].pc = "done" /\ fr.task[j].exit = "settled"
          /\ fr.task[j].hash = fr.payKey[p].val.external_id
          /\ fr.payKey[p].val.status = "Paid"
          /\ fr.users[fr.payKey[p].val.user_id].credits
               = SignupCredits + fr.payKey[p].val.credits
          /\ q # p /\ fr.payKey[q].val.status = "Pending"
          /\ fr.payKey[q].val.user_id # fr.payKey[p].val.user_id
          /\ fr.users[fr.payKey[q].val.user_id].credits = SignupCredits

\* C35: a get_latest_block request that runs alone is answered 402 and
\* deducts nothing when the user holds no credit, deducts nothing when the
\* fetch of the block fails (503), and deducts exactly 1 credit when it
\* returns the data (200).
C35_MeteredAccess ==
    [][\A i \in MeterIds :
         (/\ \A j \in MeterIds \ {i} : mt.calls[j].pc = "idle"
          /\ mt.calls[i].pc # "done" /\ mt'.calls[i].pc = "done")
         => LET status == mt'.calls[i].status
            IN /\ (LessU32(mt.start, ToWord(1)) /\ status \notin {401, 500})
                  => status = 402 /\ mt'.credits = mt.start
               /\ status = 402 => LessU32(mt.start, ToWord(1))
               /\ status = 503 => mt'.credits = mt.start
               /\ status = 200 => mt'.credits = SubU32(mt.start, ToWord(1))]_vars

\* C36: the requests of one user answered with the data are never more than
\* the credits the user held at the start, however the requests interleave
\* (stated for the runs in which every deduction returned Ok).
C36_PaidWithinCredits ==
    (\A i \in DOMAIN mt.calls :
        (mt.calls[i].pc = "done" /\ mt.calls[i].status = 200) => mt.calls[i].charged)
    => Cardinality({i \in DOMAIN mt.calls :
                      mt.calls[i].pc = "done" /\ mt.calls[i].status = 200})
         <= WordVal(mt.start)

\* C37: a payment record stored as Paid has an external id, and a request
\* whose creation failed before the provider returned one (stored Pending,
\* no external id) is never stored as Paid and never credited.
C37_PaidHasExternalId ==
    \A p \in PayIds :
        /\ payKey[p].val.status = "Paid" => payKey[p].val.external_id # 0
        /\ (cr[p].pc = "failed" /\ payKey[p].val.id = p
            /\ payKey[p].val.external_id = 0)
           => /\ payKey[p].val.status = "Pending"
              /\ grants[p] = 0 /\ p \notin wasPaid
\* the provider call of a creation failed after its Pending record was
\* stored, and a webhook naming an id was then answered "not found"
C37_Witness ==
    \E p \in PayIds, w \in WebhookIds :
        /\ cr[p].pc = "failed" /\ cr[p].result = "ProviderError"
        /\ payKey[p].val.id = p /\ payKey[p].val.external_id = 0
        /\ payKey[p].val.status = "Pending" /\ Alive(payKey[p], now)
        /\ task[w].pc = "done" /\ task[w].exit = "not_found" /\ task[w].hash \in ExtIds

\* C38: whenever the balance plus request.credits fits in a u32, the
\* settlement stores exactly that sum, which is not below the balance, and
\* does not panic.
C38_GrantAddsExactly ==
    (calc.out # {} /\ ~AddU32(calc.credits, calc.granted).overflow)
    => \A o \in calc.out :
          /\ ~o.panic
          /\ o.credits = AddU32(calc.credits, calc.granted).sum
          /\ ~LessU32(o.credits, calc.credits)

====
